---- MODULE Spec2Model ----
(***************************************************************************)
(* Model of the quiz solving system (src/src).                             *)
(*                                                                         *)
(* Part 1: QuizOrchestrator.solve_quiz_sequence together with the          *)
(* BrowserManager it owns.  One sequence is one cooperative task; the      *)
(* positions of pc are the task's suspension points (awaits) plus its      *)
(* entry and exit.  Everything the code does between two suspension points *)
(* is one atomic step.  URLs are the strings the orchestrator compares:    *)
(* both the initial URL (api.py:202) and the next URL of a verdict         *)
(* (quiz_orchestrator.py:366) are str() of a validated HttpUrl, so they    *)
(* are modelled as values of one finite set, 0 standing for None.          *)
(* Logging and metrics are not modelled.                                   *)
(*                                                                         *)
(* Part 2: ErrorHandler (calculate_delay, with_retry).  Part 3:            *)
(* AnswerSubmitter.submit_answer.  Part 4: LLMAgent._parse_answer, on      *)
(* texts that are sequences of characters.  Part 5: LLMAgent.solve_task    *)
(* and its loop.  Each of these parts has variables of its own and         *)
(* specifications of its own; the variables of the other parts stay at     *)
(* rest in them.                                                           *)
(***************************************************************************)
EXTENDS Integers, Sequences, FiniteSets, TLC

\* ---------------------------------------------------------------- bounds
NumUrls == 2
MaxRetriesCap == 2
TimeStep == 45

\* ------------------------------------------------------ program constants
SkipAfterOneBelow == 30
SkipAfterTwoBelow == 60
BrowserMaxRetries == 2

Urls == 1..NumUrls
NoUrl == 0
Timeouts == {2, 50, 180}

NoResponse == [correct |-> FALSE, url |-> NoUrl, quiz |-> NoUrl]
NoResult == [success |-> FALSE, quizzes_solved |-> 0, final_status |-> "none", error |-> "None"]

VARIABLES
    timeout,                \* solve_quiz_sequence: timeout (seconds)
    max_retries_per_quiz,   \* QuizOrchestrator.max_retries_per_quiz
    now,                    \* time.time() - start_time
    deadline_fired,         \* the asyncio.timeout scope has expired
    pc,                     \* position of the sequence task
    cleanup_ret,            \* caller of the running BrowserManager.cleanup
    result,                 \* the QuizResult being returned
    escaped,                \* type of an exception leaving solve_quiz_sequence
    current_url,
    visited_urls,
    quizzes_solved,
    remaining_time,         \* _solve_single_quiz: remaining_time
    retry_count,            \* _solve_single_quiz: retry_count
    last_error,             \* _solve_single_quiz: last_error (its category)
    is_demo,                \* task_definition.additional_context["is_demo"]
    submit_response,        \* verdict of the last submit_answer call
    verdict_toggle,         \* flips whenever submit_answer returns a verdict
    attempt,                \* fetch_and_render: attempt
    bm_playwright,          \* BrowserManager._playwright is not None
    bm_browser,             \* BrowserManager._browser is not None
    bm_context,             \* BrowserManager._context is not None
    solve_calls,            \* calls of llm_agent.solve_task for current_url
    submit_calls,           \* calls of answer_submitter.submit_answer for current_url
    render_calls,           \* calls of fetch_and_render for current_url
    cleanup_called          \* the finally block has called cleanup

cfg == <<timeout, max_retries_per_quiz>>
envv == <<now, deadline_fired>>
seqv == <<current_url, visited_urls, quizzes_solved, remaining_time>>
locv == <<retry_count, last_error, is_demo>>
bmv == <<bm_playwright, bm_browser, bm_context>>
callv == <<solve_calls, submit_calls, render_calls>>
exitv == <<result, escaped, cleanup_called>>

orchv == <<timeout, max_retries_per_quiz, now, deadline_fired, pc, cleanup_ret,
          result, escaped, current_url, visited_urls, quizzes_solved,
          remaining_time, retry_count, last_error, is_demo, submit_response,
          verdict_toggle, attempt, bm_playwright, bm_browser, bm_context, solve_calls,
          submit_calls, render_calls, cleanup_called>>

\* ----------------------------------------------- variables of ErrorHandler
VARIABLES
    eh_base_delay,          \* ErrorHandler.base_delay
    eh_exponential_base,    \* ErrorHandler.exponential_base
    eh_max_delay,           \* ErrorHandler.max_delay
    cd_attempt,             \* calculate_delay: attempt
    cd_delay,               \* calculate_delay: what the call produced
    wr_max_retries,         \* with_retry: max_retries
    wr_retry_on,            \* with_retry: retry_on, as a set of class names
    wr_context_collides,    \* with_retry: context has a key the log calls pass
    wr_pc,                  \* position of the with_retry coroutine
    wr_attempt,             \* with_retry: attempt
    wr_calls,               \* calls of func made so far
    wr_sleeps,              \* the delays slept so far, in order
    wr_last_error,          \* with_retry: last_error
    wr_raised               \* the exception leaving with_retry

ehcfg == <<eh_base_delay, eh_exponential_base, eh_max_delay>>
cdv == <<cd_attempt, cd_delay>>
wrcfg == <<wr_max_retries, wr_retry_on, wr_context_collides>>
wrv == <<wr_pc, wr_attempt, wr_calls, wr_sleeps, wr_last_error, wr_raised>>
ehv == <<ehcfg, cdv, wrcfg, wrv>>

\* --------------------------------------------- variables of AnswerSubmitter
VARIABLES
    sub_max_retries,        \* AnswerSubmitter.max_retries
    sub_pc,                 \* position of the outermost submit_answer call
    sub_retry_count,        \* submit_answer: retry_count of the innermost call
    sub_posts,              \* POST requests sent
    sub_sleeps,             \* the delays slept by _retry_submission, in order
    sub_reply,              \* what the last POST ended with
    sub_raised              \* the exception leaving submit_answer

subv == <<sub_max_retries, sub_pc, sub_retry_count, sub_posts, sub_sleeps, sub_reply,
          sub_raised>>

\* ---------------------------------------------------- variables of LLMAgent
VARIABLES
    pa_content,             \* _parse_answer: content
    pa_format,              \* _parse_answer: answer_format
    pa_results,             \* self.context['results'] when it is called
    pa_typed,               \* the typed answer that content is the text of
    pa_pc,                  \* "idle" before the call, "done" after it
    pa_out,                 \* what the call produced
    llm_format,             \* task.answer_format
    llm_pc,                 \* position of the solve_task coroutine
    llm_iteration,          \* _execute_llm_loop: iteration
    llm_turns,              \* calls of _call_llm_with_retry made so far
    llm_response,           \* how the last of them ended
    llm_pending,            \* tool calls of the turn not yet carried out
    llm_call_index,         \* place in message.tool_calls of the next one
    llm_appended,           \* messages appended since the last response
    llm_files,              \* keys of self.context['files']
    llm_dataframes,         \* keys of self.context['dataframes']
    llm_results,            \* self.context['results']
    llm_final_content,      \* message.content of the turn without tool calls
    llm_out                 \* what solve_task produced

pav == <<pa_content, pa_format, pa_results, pa_typed, pa_pc, pa_out>>
llmctx == <<llm_files, llm_dataframes, llm_results>>
llmv == <<llm_format, llm_pc, llm_iteration, llm_turns, llm_response, llm_pending,
          llm_call_index, llm_appended, llmctx, llm_final_content, llm_out>>
agentv == <<pav, llmv>>

\* ------------------------------- variables of two sequences run at once
VARIABLES
    rq_pc,                  \* per request: position of its background task
    rq_objects,             \* per request: the objects its orchestrator holds
    rq_current_url,         \* per request: current_url of its sequence
    rq_visited_urls,        \* per request: visited_urls of its sequence
    rq_quizzes_solved,      \* per request: quizzes_solved of its sequence
    heap_browser,           \* per object: the browser of a BrowserManager
    heap_context,           \* per object: the context keys of an LLMAgent
    heap_next,              \* objects constructed so far
    metrics_quizzes         \* sequences recorded by the global MetricsCollector

concv == <<rq_pc, rq_objects, rq_current_url, rq_visited_urls, rq_quizzes_solved,
           heap_browser, heap_context, heap_next, metrics_quizzes>>

\* ------------------------ variables of a call of a function of its argument
VARIABLES
    fn_pc,                  \* "idle", or the function that was called
    fn_arg,                 \* the argument of the call
    fn_out                  \* what the call returned or raised

fnv == <<fn_pc, fn_arg, fn_out>>

\* --------------------- variables of one call of LLMAgent._call_llm_with_retry
VARIABLES
    cl_pc,                  \* position of the call
    cl_attempt,             \* attempt
    cl_calls,               \* calls of client.chat.completions.create so far
    cl_errors,              \* what those calls raised, in order
    cl_slept,               \* the asyncio.sleep delays so far, in order
    cl_out                  \* what the call returned or raised

clv == <<cl_pc, cl_attempt, cl_calls, cl_errors, cl_slept, cl_out>>

\* ------------- variables of the solves of one LLMAgent, one tool call a step
VARIABLES
    tx_pc,                  \* "idle", "solving" (inside solve_task) or "over"
    tx_solves,              \* calls of solve_task so far
    tx_ctx,                 \* self.context: the five namespaces
    tx_call,                \* the last tool call and the success of its result
    tx_stored,              \* keys stored by the calls of this solve
    tx_stored_ok            \* keys stored by the successful calls of this solve

txv == <<tx_pc, tx_solves, tx_ctx, tx_call, tx_stored, tx_stored_ok>>

\* The variables of the parts after the agent, and of the parts before them.
morev == <<concv, fnv, clv, txv>>
basev == <<orchv, ehv, subv, agentv>>
notConc == <<basev, fnv, clv, txv>>
notFn == <<basev, concv, clv, txv>>
notCl == <<basev, concv, fnv, txv>>
notTx == <<basev, concv, fnv, clv>>

\* The variables of the parts other than the orchestrator.
others == <<ehv, subv, agentv, morev>>
notEh == <<orchv, subv, agentv, morev>>
notSub == <<orchv, ehv, agentv, morev>>
notAgent == <<orchv, ehv, subv, morev>>

vars == <<orchv, others>>

\* ------------------------------------------------------------ exceptions
\* An exception is its class and the category classify_error gives it.
Exc(t, c) == [type |-> t, category |-> c]
CancelledError == Exc("CancelledError", "unknown")
PlaywrightTimeoutError == Exc("PlaywrightTimeoutError", "timeout")
PlaywrightError == Exc("PlaywrightError", "browser")
BrowserError == Exc("BrowserError", "browser")
TaskExecutionError == Exc("TaskExecutionError", "task_execution")
QuizTimeoutError == Exc("QuizTimeoutError", "timeout")

\* What the solve and submit steps can raise: one exception per category the
\* orchestrator could tell apart, the built-in TimeoutError among them.
StepErrors == { Exc("PermissionDeniedError", "authentication"),
                Exc("ValidationError", "validation"),
                Exc("TimeoutError", "timeout"),
                Exc("RuntimeError", "unknown") }

\* `except Exception`: every class but CancelledError derives from Exception.
IsException(e) == e.type # "CancelledError"

InSeq(x, s) == \E i \in 1..Len(s) : s[i] = x

\* ------------------------------------------------------------- positions
LaunchSteps == {"pw_start", "br_launch", "ctx_new"}
CleanupSteps == {"cl_ctx", "cl_br", "cl_pw"}
InFlight == LaunchSteps \cup CleanupSteps \cup
            {"page", "render_sleep", "solve", "submit", "retry_sleep"}

\* The task is inside `async with asyncio.timeout(timeout)` (lines 111-150).
InScope == pc \in InFlight /\ cleanup_ret # "final"

\* An awaited step can still complete: the deadline has not been reached, or
\* the step belongs to the finally block, which the deadline does not cover.
Running == pc \in InFlight /\ (cleanup_ret = "final" \/ now < timeout)

\* ------------------------------------------------------ pure operators
\* QuizOrchestrator._should_skip_to_next
ShouldSkipToNext(rc, remaining) ==
    IF remaining < SkipAfterOneBelow /\ rc >= 1 THEN TRUE
    ELSE IF remaining < SkipAfterTwoBelow /\ rc >= 2 THEN TRUE
    ELSE FALSE

\* Faulty variants of the verdict decision, used to test the properties below:
\* one that returns None where line 418 raises, one that treats a correct
\* verdict like an incorrect one (lines 357-366 missing), and one whose cap
\* test at line 380 reads retry_count > max_retries_per_quiz.
VerdictDecisionNoRaise(correct, url, rc, remaining, max_retries) ==
    IF correct THEN "return"
    ELSE IF url # NoUrl /\ rc >= max_retries THEN "return"
    ELSE IF url # NoUrl /\ ShouldSkipToNext(rc, remaining) THEN "return"
    ELSE IF rc + 1 <= max_retries THEN "retry"
    ELSE "return"

VerdictDecisionIgnoresCorrect(correct, url, rc, remaining, max_retries) ==
    IF url # NoUrl /\ rc >= max_retries THEN "return"
    ELSE IF url # NoUrl /\ ShouldSkipToNext(rc, remaining) THEN "return"
    ELSE IF rc + 1 <= max_retries THEN "retry"
    ELSE "raise"

VerdictDecisionOffByOne(correct, url, rc, remaining, max_retries) ==
    IF correct THEN "return"
    ELSE IF url # NoUrl /\ rc > max_retries THEN "return"
    ELSE IF url # NoUrl /\ ShouldSkipToNext(rc, remaining) THEN "return"
    ELSE IF rc + 1 <= max_retries THEN "retry"
    ELSE "raise"

\* Lines 357-420: what _solve_single_quiz does with a verdict when
\* retry_count = rc: return the verdict's url, retry the quiz, or raise.
VerdictDecision(correct, url, rc, remaining, max_retries) ==
    IF correct THEN "return"
    ELSE IF url # NoUrl /\ rc >= max_retries THEN "return"
    ELSE IF url # NoUrl /\ ShouldSkipToNext(rc, remaining) THEN "return"
    ELSE IF rc + 1 <= max_retries THEN "retry"
    ELSE "raise"

\* asyncio.timeout.__aexit__: the CancelledError of an expired scope leaves
\* the scope as the built-in TimeoutError; anything else passes unchanged.
TimeoutExit(e, expired) ==
    IF expired /\ e.type = "CancelledError" THEN Exc("TimeoutError", "timeout") ELSE e

\* Faulty variants of the except clauses: one without the catch-all clause
\* (lines 209-250), one whose catch-all clause comes first.
SequenceHandlerNoCatchAll(e) ==
    IF e.type = "TimeoutError" THEN "timeout" ELSE "propagate"

SequenceHandlerErrorFirst(e) ==
    IF IsException(e) THEN "error" ELSE "propagate"

\* The except clauses of solve_quiz_sequence, in order.
SequenceHandler(e) ==
    IF e.type = "TimeoutError" THEN "timeout"
    ELSE IF IsException(e) THEN "error"
    ELSE "propagate"

\* Faulty variant: the quiz being processed is counted as solved.
QuizResultCountsCurrent(ok, solved, status, text) ==
    [success |-> ok, quizzes_solved |-> solved + 1, final_status |-> status, error |-> text]

QuizResult(ok, solved, status, text) ==
    [success |-> ok, quizzes_solved |-> solved, final_status |-> status, error |-> text]

\* BrowserManager.cleanup up to its first await: the handle it closes next.
CleanupPc(ctx, br, pw) ==
    IF ctx THEN "cl_ctx" ELSE IF br THEN "cl_br" ELSE IF pw THEN "cl_pw" ELSE "cl_end"

\* BrowserManager._launch_browser up to its first await.
LaunchPc(br) == IF br THEN "page" ELSE "pw_start"

\* ------------------------------------------- fragments of control flow
\* Each assigns pc, cleanup_ret, result, escaped and cleanup_called.
Goto(p) ==
    /\ pc' = p
    /\ UNCHANGED <<cleanup_ret, result, escaped, cleanup_called>>

CallCleanup(ret) ==
    /\ pc' = CleanupPc(bm_context, bm_browser, bm_playwright)
    /\ cleanup_ret' = ret
    /\ UNCHANGED <<result, escaped, cleanup_called>>

\* A return statement of solve_quiz_sequence followed by its finally block.
Finish(r, e) ==
    /\ result' = r
    /\ escaped' = e
    /\ cleanup_called' = TRUE
    /\ cleanup_ret' = "final"
    /\ pc' = CleanupPc(bm_context, bm_browser, bm_playwright)

\* Exception e leaves _solve_single_quiz: exit of the timeout scope, then the
\* except clauses of solve_quiz_sequence.
ExitScope(e, expired, solved) ==
    LET out == TimeoutExit(e, expired)
        h == SequenceHandler(out)
    IN  IF h = "timeout"
        THEN Finish(QuizResult(FALSE, solved, "timeout", "Exceeded time limit"), "none")
        ELSE IF h = "error"
        THEN Finish(QuizResult(FALSE, solved, "error", out.type), "none")
        ELSE Finish(NoResult, out.type)

\* Faulty variant of the loop head: a retry renders the page again.
StartAttemptRendersAgain(rc, demo) ==
    IF rc <= max_retries_per_quiz
    THEN IF rc > 0
         THEN /\ Goto("page")
              /\ render_calls' = render_calls + 1
              /\ UNCHANGED <<solve_calls, submit_calls>>
         ELSE IF demo
         THEN /\ Goto("submit")
              /\ submit_calls' = submit_calls + 1
              /\ UNCHANGED <<solve_calls, render_calls>>
         ELSE /\ Goto("solve")
              /\ solve_calls' = solve_calls + 1
              /\ UNCHANGED <<submit_calls, render_calls>>
    ELSE /\ ExitScope(Exc("Exception", "unknown"), FALSE, quizzes_solved)
         /\ UNCHANGED callv

\* Lines 324-348: the head of the per-quiz retry loop up to its first await.
StartAttempt(rc, demo) ==
    IF rc <= max_retries_per_quiz
    THEN IF demo
         THEN /\ Goto("submit")
              /\ submit_calls' = submit_calls + 1
              /\ UNCHANGED <<solve_calls, render_calls>>
         ELSE /\ Goto("solve")
              /\ solve_calls' = solve_calls + 1
              /\ UNCHANGED <<submit_calls, render_calls>>
    ELSE /\ ExitScope(Exc("Exception", "unknown"), FALSE, quizzes_solved)
         /\ UNCHANGED callv

\* Faulty variant of the loop head: the visited check (lines 114-121) missing.
EnterLoopNoCycleCheck(url, solved) ==
    /\ current_url' = url
    /\ quizzes_solved' = solved
    /\ retry_count' = 0
    /\ last_error' = "none"
    /\ is_demo' = FALSE
    /\ attempt' = 0
    /\ IF url = NoUrl
       THEN /\ Finish(QuizResult(TRUE, solved, "completed", "None"), "none")
            /\ UNCHANGED <<visited_urls, remaining_time, callv>>
       ELSE /\ visited_urls' = Append(visited_urls, url)
            /\ remaining_time' = timeout - now
            /\ Goto(LaunchPc(bm_browser))
            /\ solve_calls' = 0
            /\ submit_calls' = 0
            /\ render_calls' = 1

\* Faulty variant of the loop head: the membership check (line 114) looks at
\* the last visited URL only.
EnterLoopChecksLast(url, solved) ==
    /\ current_url' = url
    /\ quizzes_solved' = solved
    /\ retry_count' = 0
    /\ last_error' = "none"
    /\ is_demo' = FALSE
    /\ attempt' = 0
    /\ IF url = NoUrl \/ (visited_urls # <<>> /\ visited_urls[Len(visited_urls)] = url)
       THEN /\ Finish(QuizResult(TRUE, solved, "completed", "None"), "none")
            /\ UNCHANGED <<visited_urls, remaining_time, callv>>
       ELSE /\ visited_urls' = Append(visited_urls, url)
            /\ remaining_time' = timeout - now
            /\ Goto(LaunchPc(bm_browser))
            /\ solve_calls' = 0
            /\ submit_calls' = 0
            /\ render_calls' = 1

\* Lines 112-141 and fetch_and_render up to its first await, entered with
\* current_url = url and quizzes_solved = solved.
EnterLoop(url, solved) ==
    /\ current_url' = url
    /\ quizzes_solved' = solved
    /\ retry_count' = 0
    /\ last_error' = "none"
    /\ is_demo' = FALSE
    /\ attempt' = 0
    /\ IF url = NoUrl \/ InSeq(url, visited_urls)
       THEN /\ Finish(QuizResult(TRUE, solved, "completed", "None"), "none")
            /\ UNCHANGED <<visited_urls, remaining_time, callv>>
       ELSE /\ visited_urls' = Append(visited_urls, url)
            /\ remaining_time' = timeout - now
            /\ Goto(LaunchPc(bm_browser))
            /\ solve_calls' = 0
            /\ submit_calls' = 0
            /\ render_calls' = 1

\* Faulty variant of lines 143-150: the loop goes on to a URL other than the
\* one _solve_single_quiz returned.
ReturnNextWrongUrl(next) ==
    EnterLoop(IF next = NoUrl THEN NoUrl ELSE (next % NumUrls) + 1, quizzes_solved + 1)

\* Faulty variant of lines 143-150: the quiz that was moved past is not counted.
ReturnNextNotCounted(next) == EnterLoop(next, quizzes_solved)

\* Lines 143-150: _solve_single_quiz returned next.
ReturnNext(next) == EnterLoop(next, quizzes_solved + 1)

\* Faulty variant of lines 422-464: the next attempt starts without the sleep
\* of line 464.
QuizStepFailedNoWait(e, rc) ==
    /\ retry_count' = rc + 1
    /\ last_error' = e.category
    /\ IF rc + 1 > max_retries_per_quiz
       THEN ExitScope(TaskExecutionError, FALSE, quizzes_solved) /\ UNCHANGED callv
       ELSE StartAttempt(rc + 1, is_demo)
    /\ UNCHANGED <<seqv, is_demo, attempt>>

\* Lines 422-464: the except clause of the per-quiz retry loop, entered with
\* retry_count = rc.
QuizStepFailed(e, rc) ==
    /\ retry_count' = rc + 1
    /\ last_error' = e.category
    /\ IF rc + 1 > max_retries_per_quiz
       THEN ExitScope(TaskExecutionError, FALSE, quizzes_solved)
       ELSE Goto("retry_sleep")
    /\ UNCHANGED <<seqv, is_demo, attempt, callv>>

\* An exception e raised at the await the task is suspended in, followed
\* through the try/except structure around that await.  solved is the value
\* of quizzes_solved, expired tells whether e is the deadline's cancellation.
RaiseAt(e, expired) ==
    IF pc \in LaunchSteps
    THEN \* browser_manager.py:61-69, quiz_orchestrator.py:290
         /\ IF IsException(e) THEN CallCleanup("launch")
            ELSE ExitScope(e, expired, quizzes_solved)
         /\ UNCHANGED <<seqv, locv, attempt, callv, submit_response>>
    ELSE IF pc = "page"
    THEN \* browser_manager.py:133-176
         /\ IF e.type = "PlaywrightTimeoutError"
            THEN IF attempt = BrowserMaxRetries - 1
                 THEN ExitScope(BrowserError, expired, quizzes_solved)
                 ELSE Goto("render_sleep")
            ELSE IF IsException(e)
            THEN IF attempt = BrowserMaxRetries - 1
                 THEN ExitScope(BrowserError, expired, quizzes_solved)
                 ELSE CallCleanup("fetch")
            ELSE ExitScope(e, expired, quizzes_solved)
         /\ UNCHANGED <<seqv, locv, attempt, callv, submit_response>>
    ELSE IF pc = "render_sleep"
    THEN \* raised inside an except clause of fetch_and_render; quiz_orchestrator.py:290
         /\ ExitScope(IF IsException(e) THEN BrowserError ELSE e, expired, quizzes_solved)
         /\ UNCHANGED <<seqv, locv, attempt, callv, submit_response>>
    ELSE IF pc \in {"solve", "submit"}
    THEN \* quiz_orchestrator.py:422
         /\ IF IsException(e) THEN QuizStepFailed(e, retry_count)
            ELSE /\ ExitScope(e, expired, quizzes_solved)
                 /\ UNCHANGED <<seqv, locv, attempt, callv>>
         /\ UNCHANGED submit_response
    ELSE IF pc = "retry_sleep"
    THEN \* raised inside the except clause, quiz_orchestrator.py:464
         /\ ExitScope(e, expired, quizzes_solved)
         /\ UNCHANGED <<seqv, locv, attempt, callv, submit_response>>
    ELSE \* pc \in CleanupSteps, browser_manager.py:203
         /\ IF IsException(e) THEN Goto("cl_end")
            ELSE IF cleanup_ret = "final"
            THEN /\ pc' = "raised"
                 /\ escaped' = e.type
                 /\ result' = NoResult
                 /\ UNCHANGED <<cleanup_ret, cleanup_called>>
            ELSE ExitScope(e, expired, quizzes_solved)
         /\ UNCHANGED <<seqv, locv, attempt, callv, submit_response>>

\* ------------------------------------------------------------ parts at rest
NoError == Exc("None", "none")
NoDelay == [raised |-> "None", value |-> 0]

\* The module-level ErrorHandler() (error_handler.py:434), nothing called.
EhAtRest ==
    /\ eh_base_delay = 1
    /\ eh_exponential_base = 2
    /\ eh_max_delay = 30
    /\ cd_attempt = 0
    /\ cd_delay = NoDelay
    /\ wr_max_retries = 3
    /\ wr_retry_on = {}
    /\ wr_context_collides = FALSE
    /\ wr_pc = "idle"
    /\ wr_attempt = 0
    /\ wr_calls = 0
    /\ wr_sleeps = <<>>
    /\ wr_last_error = NoError
    /\ wr_raised = NoError

\* AnswerSubmitter() with settings.max_retries, submit_answer not called.
SubAtRest ==
    /\ sub_max_retries = 2
    /\ sub_pc = "idle"
    /\ sub_retry_count = 0
    /\ sub_posts = 0
    /\ sub_sleeps = <<>>
    /\ sub_reply = "none"
    /\ sub_raised = NoError

\* A value of Python or of JSON, as a record of one shape: t is its type,
\* and b, n, s or m holds it.
Zero == <<1, 0, 0>>
Val(t, b, n, s, m) == [t |-> t, b |-> b, n |-> n, s |-> s, m |-> m]
NoneVal == Val("none", FALSE, Zero, <<>>, <<>>)
BoolVal(b) == Val("bool", b, Zero, <<>>, <<>>)
NumVal(n) == Val("num", FALSE, n, <<>>, <<>>)
StrVal(s) == Val("str", FALSE, Zero, s, <<>>)
ObjVal(m) == Val("obj", FALSE, Zero, <<>>, m)
ArrVal(m) == Val("arr", FALSE, Zero, <<>>, m)

\* Python's None where a text is expected: it is no text.
NoneText == <<"None">>

Gives(val) == [raised |-> "None", value |-> val]
Raises(type) == [raised |-> type, value |-> NoneVal]

NoTyped == [format |-> "none", value |-> NoneVal, float |-> FALSE, python |-> FALSE]

\* LLMAgent(), _parse_answer and solve_task not called.
ParseAtRest ==
    /\ pa_content = <<>>
    /\ pa_format = "string"
    /\ pa_results = <<>>
    /\ pa_typed = NoTyped
    /\ pa_pc = "idle"
    /\ pa_out = Gives(NoneVal)

LoopAtRest ==
    /\ llm_format = "string"
    /\ llm_pc = "idle"
    /\ llm_iteration = 0
    /\ llm_turns = 0
    /\ llm_response = "none"
    /\ llm_pending = <<>>
    /\ llm_call_index = 0
    /\ llm_appended = <<>>
    /\ llm_files = {}
    /\ llm_dataframes = {}
    /\ llm_results = <<>>
    /\ llm_final_content = <<>>
    /\ llm_out = Gives(NoneVal)

AgentAtRest == ParseAtRest /\ LoopAtRest

\* Two requests accepted by the API, their background tasks not yet started.
Requests == {1, 2}
Components == <<"orchestrator", "browser_manager", "llm_agent">>
ObjectIds == 1..(Cardinality(Requests) * Len(Components))
NoObjects == [orchestrator |-> 0, browser_manager |-> 0, llm_agent |-> 0]

ConcAtRest ==
    /\ rq_pc = [r \in Requests |-> "accepted"]
    /\ rq_objects = [r \in Requests |-> NoObjects]
    /\ rq_current_url = [r \in Requests |-> NoUrl]
    /\ rq_visited_urls = [r \in Requests |-> <<>>]
    /\ rq_quizzes_solved = [r \in Requests |-> 0]
    /\ heap_browser = [o \in ObjectIds |-> "none"]
    /\ heap_context = [o \in ObjectIds |-> {}]
    /\ heap_next = 0
    /\ metrics_quizzes = 0

FnAtRest ==
    /\ fn_pc = "idle"
    /\ fn_arg = <<>>
    /\ fn_out = <<>>

ClAtRest ==
    /\ cl_pc = "idle"
    /\ cl_attempt = 0
    /\ cl_calls = 0
    /\ cl_errors = <<>>
    /\ cl_slept = <<>>
    /\ cl_out = <<>>

\* self.context of a new LLMAgent is {} (line 52); no tool has run on it.
NoCall == [name |-> "none", args |-> <<>>, success |-> FALSE]

TxAtRest ==
    /\ tx_pc = "idle"
    /\ tx_solves = 0
    /\ tx_ctx = [files |-> {}, dataframes |-> {}, results |-> <<>>, images |-> {},
                 audio |-> {}]
    /\ tx_call = NoCall
    /\ tx_stored = {}
    /\ tx_stored_ok = {}

MoreAtRest == ConcAtRest /\ FnAtRest /\ ClAtRest /\ TxAtRest

\* ---------------------------------------------------------------- actions
\* The orchestrator before solve_quiz_sequence is called.
OrchAtRest ==
    /\ now = 0
    /\ deadline_fired = FALSE
    /\ pc = "start"
    /\ cleanup_ret = "none"
    /\ result = NoResult
    /\ escaped = "none"
    /\ current_url = NoUrl
    /\ visited_urls = <<>>
    /\ quizzes_solved = 0
    /\ remaining_time = 0
    /\ retry_count = 0
    /\ last_error = "none"
    /\ is_demo = FALSE
    /\ submit_response = NoResponse
    /\ verdict_toggle = FALSE
    /\ attempt = 0
    /\ bm_playwright = FALSE
    /\ bm_browser = FALSE
    /\ bm_context = FALSE
    /\ solve_calls = 0
    /\ submit_calls = 0
    /\ render_calls = 0
    /\ cleanup_called = FALSE

Init ==
    /\ timeout \in Timeouts
    /\ max_retries_per_quiz \in 0..MaxRetriesCap
    /\ OrchAtRest
    /\ EhAtRest
    /\ SubAtRest
    /\ AgentAtRest
    /\ MoreAtRest

\* A QuizOrchestrator with its defaults, solve_quiz_sequence not called.
OrchIdle ==
    /\ timeout = 180
    /\ max_retries_per_quiz = 2
    /\ OrchAtRest

\* solve_quiz_sequence is called with initial_url (lines 89-141).
Start ==
    /\ pc = "start"
    /\ \E initial_url \in Urls : EnterLoop(initial_url, 0)
    /\ UNCHANGED <<others, cfg, verdict_toggle, envv, bmv, submit_response>>

\* Time passes while the task is suspended inside the timeout scope.
Tick ==
    /\ InScope
    /\ now < timeout
    /\ now' = IF now + TimeStep < timeout THEN now + TimeStep ELSE timeout
    /\ UNCHANGED <<others, cfg, verdict_toggle, deadline_fired, pc, cleanup_ret, exitv, seqv, locv,
                   submit_response, attempt, bmv, callv>>

\* The deadline of asyncio.timeout (line 111) is reached: the task is
\* cancelled at the await it is suspended in.
DeadlineFires ==
    /\ InScope
    /\ now >= timeout
    /\ ~deadline_fired
    /\ deadline_fired' = TRUE
    /\ RaiseAt(CancelledError, TRUE)
    /\ UNCHANGED <<others, cfg, verdict_toggle, now, bmv>>

\* _launch_browser, browser_manager.py:50-54
PlaywrightStarted ==
    /\ pc = "pw_start" /\ Running
    /\ bm_playwright' = TRUE
    /\ Goto("br_launch")
    /\ UNCHANGED <<others, cfg, verdict_toggle, envv, seqv, locv, submit_response, attempt, bm_browser,
                   bm_context, callv>>

BrowserLaunched ==
    /\ pc = "br_launch" /\ Running
    /\ bm_browser' = TRUE
    /\ Goto("ctx_new")
    /\ UNCHANGED <<others, cfg, verdict_toggle, envv, seqv, locv, submit_response, attempt, bm_playwright,
                   bm_context, callv>>

ContextCreated ==
    /\ pc = "ctx_new" /\ Running
    /\ bm_context' = TRUE
    /\ Goto("page")
    /\ UNCHANGED <<others, cfg, verdict_toggle, envv, seqv, locv, submit_response, attempt, bm_playwright,
                   bm_browser, callv>>

LaunchFails ==
    /\ pc \in LaunchSteps /\ Running
    /\ RaiseAt(PlaywrightError, FALSE)
    /\ UNCHANGED <<others, cfg, verdict_toggle, envv, bmv>>

\* fetch_and_render returns the markup (browser_manager.py:92-131) and the
\* page is parsed (quiz_orchestrator.py:299-321); parsed is the outcome of
\* TaskParser.parse_quiz_page.
PageRendered ==
    /\ pc = "page" /\ Running
    /\ bm_context
    /\ \E parsed \in {"task", "demo", "fail"} :
         IF parsed = "fail"
         THEN /\ ExitScope(TaskExecutionError, FALSE, quizzes_solved)
              /\ UNCHANGED <<locv, callv>>
         ELSE /\ retry_count' = 0
              /\ last_error' = "none"
              /\ is_demo' = (parsed = "demo")
              /\ StartAttempt(0, parsed = "demo")
    /\ submit_response' = NoResponse
    /\ UNCHANGED <<others, cfg, verdict_toggle, envv, seqv, attempt, bmv>>

\* The page load raises: a Playwright timeout, or any other error (among
\* them new_page on a context that is None).
PageFails ==
    /\ pc = "page" /\ Running
    /\ \E e \in {PlaywrightTimeoutError, PlaywrightError} :
         /\ e = PlaywrightTimeoutError => bm_context
         /\ RaiseAt(e, FALSE)
    /\ UNCHANGED <<others, cfg, verdict_toggle, envv, bmv>>

\* asyncio.sleep(1) of fetch_and_render ends; next iteration of its for loop.
RenderSleepDone ==
    /\ pc = "render_sleep" /\ Running
    /\ attempt' = attempt + 1
    /\ Goto(LaunchPc(bm_browser))
    /\ UNCHANGED <<others, cfg, verdict_toggle, envv, seqv, locv, submit_response, bmv, callv>>

\* llm_agent.solve_task returns an answer; submit_answer is called (337-348).
SolveReturns ==
    /\ pc = "solve" /\ Running
    /\ Goto("submit")
    /\ submit_calls' = submit_calls + 1
    /\ submit_response' = NoResponse
    /\ UNCHANGED <<others, cfg, verdict_toggle, envv, seqv, locv, attempt, bmv, solve_calls, render_calls>>

\* solve_task or submit_answer raises.
StepRaises ==
    /\ pc \in {"solve", "submit"} /\ Running
    /\ \E e \in StepErrors : RaiseAt(e, FALSE)
    /\ UNCHANGED <<others, cfg, verdict_toggle, envv, bmv>>

\* Faulty variant: the verdict is judged with the time left when it arrives.
SubmitReturnsReadsClock ==
    /\ pc = "submit" /\ Running
    /\ \E correct \in BOOLEAN, url \in Urls \cup {NoUrl} :
         LET d == VerdictDecision(correct, url, retry_count, timeout - now,
                                  max_retries_per_quiz)
         IN  /\ submit_response' = [correct |-> correct, url |-> url, quiz |-> current_url]
             /\ IF d = "return"
                THEN ReturnNext(url)
                ELSE IF d = "retry"
                THEN /\ retry_count' = retry_count + 1
                     /\ last_error' = "reason"
                     /\ StartAttempt(retry_count + 1, is_demo)
                     /\ UNCHANGED <<seqv, is_demo, attempt>>
                ELSE \* line 418 raises inside the try block: caught at line 422
                     QuizStepFailed(Exc("Exception", "unknown"), retry_count + 1)
    /\ verdict_toggle' = ~verdict_toggle
    /\ UNCHANGED <<others, cfg, envv, bmv>>

\* submit_answer returns a verdict (lines 356-420).
SubmitReturns ==
    /\ pc = "submit" /\ Running
    /\ \E correct \in BOOLEAN, url \in Urls \cup {NoUrl} :
         LET d == VerdictDecision(correct, url, retry_count, remaining_time,
                                  max_retries_per_quiz)
         IN  /\ submit_response' = [correct |-> correct, url |-> url, quiz |-> current_url]
             /\ IF d = "return"
                THEN ReturnNext(url)
                ELSE IF d = "retry"
                THEN /\ retry_count' = retry_count + 1
                     /\ last_error' = "reason"
                     /\ StartAttempt(retry_count + 1, is_demo)
                     /\ UNCHANGED <<seqv, is_demo, attempt>>
                ELSE \* line 418 raises inside the try block: caught at line 422
                     QuizStepFailed(Exc("Exception", "unknown"), retry_count + 1)
    /\ verdict_toggle' = ~verdict_toggle
    /\ UNCHANGED <<others, cfg, envv, bmv>>

\* asyncio.sleep(1) of the per-quiz retry loop ends (line 464).
RetrySleepDone ==
    /\ pc = "retry_sleep" /\ Running
    /\ StartAttempt(retry_count, is_demo)
    /\ submit_response' = NoResponse
    /\ UNCHANGED <<others, cfg, verdict_toggle, envv, seqv, locv, attempt, bmv>>

\* BrowserManager.cleanup: one handle is closed (browser_manager.py:186-199).
HandleClosed ==
    /\ pc \in CleanupSteps /\ Running
    /\ bm_context' = (bm_context /\ pc # "cl_ctx")
    /\ bm_browser' = (bm_browser /\ pc # "cl_br")
    /\ bm_playwright' = (bm_playwright /\ pc # "cl_pw")
    /\ pc' = IF pc = "cl_ctx" THEN CleanupPc(FALSE, bm_browser, bm_playwright)
             ELSE IF pc = "cl_br" THEN CleanupPc(FALSE, FALSE, bm_playwright)
             ELSE "cl_end"
    /\ UNCHANGED <<others, cfg, verdict_toggle, envv, cleanup_ret, exitv, seqv, locv, submit_response,
                   attempt, callv>>

\* A close or stop call of cleanup raises (browser_manager.py:203-205).
CloseRaises ==
    /\ pc \in CleanupSteps /\ Running
    /\ RaiseAt(PlaywrightError, FALSE)
    /\ UNCHANGED <<others, cfg, verdict_toggle, envv, bmv>>

\* cleanup returns to its caller.
CleanupReturns ==
    /\ pc = "cl_end"
    /\ IF cleanup_ret = "final"
       THEN \* solve_quiz_sequence returns
            Goto(IF escaped = "none" THEN "done" ELSE "raised")
       ELSE IF cleanup_ret = "launch"
       THEN \* browser_manager.py:69 raises browser_error, caught at line 155
            IF attempt = BrowserMaxRetries - 1
            THEN ExitScope(BrowserError, FALSE, quizzes_solved)
            ELSE CallCleanup("fetch")
       ELSE \* browser_manager.py:176
            Goto("render_sleep")
    /\ UNCHANGED <<others, cfg, verdict_toggle, envv, seqv, locv, submit_response, attempt, bmv, callv>>

Next ==
    \/ Start
    \/ Tick
    \/ DeadlineFires
    \/ PlaywrightStarted
    \/ BrowserLaunched
    \/ ContextCreated
    \/ LaunchFails
    \/ PageRendered
    \/ PageFails
    \/ RenderSleepDone
    \/ SolveReturns
    \/ StepRaises
    \/ SubmitReturns
    \/ RetrySleepDone
    \/ HandleClosed
    \/ CloseRaises
    \/ CleanupReturns

Spec == Init /\ [][Next]_vars

\* ======================================================================
\* Properties of solve_quiz_sequence
\* ======================================================================
Returned == pc = "done"
AllClosed == ~bm_context /\ ~bm_browser /\ ~bm_playwright

\* The step being taken delivers a verdict of submit_answer.
VerdictArrives == verdict_toggle' # verdict_toggle

\* The step being taken starts another attempt at the same quiz.
Retries ==
    /\ pc' = IF is_demo THEN "submit" ELSE "solve"
    /\ retry_count' = retry_count + 1
    /\ solve_calls' + submit_calls' = solve_calls + submit_calls + 1
    /\ UNCHANGED <<current_url, visited_urls, quizzes_solved, result>>

\* The step being taken ends the sequence with the completed result.
Completes(n) ==
    /\ result' = QuizResult(TRUE, n, "completed", "None")
    /\ cleanup_called'
    /\ UNCHANGED <<visited_urls, callv>>

\* The step being taken leaves the current quiz for url u: it is rendered
\* next, or, when it is None or was processed before, the sequence completes.
AdvancesTo(u) ==
    /\ current_url' = u
    /\ quizzes_solved' = quizzes_solved + 1
    /\ IF u = NoUrl \/ InSeq(u, visited_urls)
       THEN Completes(Len(visited_urls))
       ELSE /\ visited_urls' = Append(visited_urls, u)
            /\ pc' \in {"pw_start", "page"}
            /\ solve_calls' = 0 /\ submit_calls' = 0 /\ render_calls' = 1
            /\ result' = NoResult

\* C1: whatever the steps do (succeed, raise, or the deadline fires),
\* solve_quiz_sequence returns a QuizResult and no exception reaches the
\* caller; final_status is completed, timeout or error, success holds
\* exactly for completed, and an error text is present exactly when success
\* is false.
C1_AlwaysReturnsResult ==
    /\ pc # "raised"
    /\ escaped = "none"
    /\ (Returned \/ cleanup_called) =>
          /\ result.final_status \in {"completed", "timeout", "error"}
          /\ result.success <=> (result.final_status = "completed")
          /\ (result.error # "None") <=> ~result.success

C1_Witness ==
    /\ Returned
    /\ result.final_status = "error"
    /\ last_error = "validation"

\* C2: once the deadline has fired, the step in flight is gone, the task is
\* in the finally block or has returned (so no render, solve or submit step
\* is started any more), and the result is timeout, not successful, with
\* quizzes_solved the number of quizzes finished before the deadline.
C2_DeadlineYieldsTimeout ==
    deadline_fired =>
        /\ pc \in CleanupSteps \cup {"cl_end", "done"}
        /\ cleanup_ret = "final"
        /\ result = QuizResult(FALSE, quizzes_solved, "timeout", "Exceeded time limit")
        /\ quizzes_solved = Len(visited_urls) - 1

C2_Witness ==
    /\ Returned
    /\ timeout = 2
    /\ deadline_fired
    /\ solve_calls = 1 /\ submit_calls = 0
    /\ result.final_status = "timeout"

\* C3: when solve_quiz_sequence has returned, cleanup has run and the
\* browser manager holds no context, browser or playwright handle.
C3_NoHandleLeft ==
    Returned => (cleanup_called /\ AllClosed)

\* The verdict just delivered ends the current quiz: it is correct, or the
\* retry budget is used up, or _should_skip_to_next says to skip.
Followed ==
    \/ submit_response'.correct
    \/ retry_count >= max_retries_per_quiz
    \/ ShouldSkipToNext(retry_count, remaining_time)

\* Attempts made at the current quiz, the one in flight included.
Attempts == IF is_demo THEN submit_calls ELSE solve_calls

\* A result, once computed, is the one returned.
ResultIsFinal == result # NoResult => result' = result

\* C4 as stated: whenever a verdict names a URL already processed, the
\* sequence stops there with the completed result.
C4_AnyVerdictToVisitedStops ==
    [][(VerdictArrives /\ InSeq(submit_response'.url, visited_urls))
          => Completes(Len(visited_urls))]_vars

\* C4, amended: when the orchestrator leaves a quiz on a verdict (a correct
\* one, or an incorrect one it does not retry) whose next_url was already
\* processed, it stops without processing that URL again and returns the
\* completed result with quizzes_solved the number of quizzes processed.
C4_CycleStops ==
    [][/\ (VerdictArrives /\ Followed /\ InSeq(submit_response'.url, visited_urls))
            => /\ Completes(Len(visited_urls))
               /\ quizzes_solved' = Len(visited_urls)
       /\ ResultIsFinal]_vars

C4_Witness ==
    /\ Returned
    /\ visited_urls = <<1, 2>>
    /\ submit_response = [correct |-> TRUE, url |-> 1, quiz |-> 2]
    /\ result = QuizResult(TRUE, 2, "completed", "None")

\* C5: an incorrect verdict without next_url is retried while attempts
\* remain; on attempt max_retries_per_quiz + 1 it ends the sequence with
\* final_status error and success false.
C5_ExhaustedIncorrectIsError ==
    [][(VerdictArrives /\ ~submit_response'.correct /\ submit_response'.url = NoUrl)
          => IF retry_count < max_retries_per_quiz
             THEN Retries
             ELSE /\ Attempts = max_retries_per_quiz + 1
                  /\ result' = QuizResult(FALSE, quizzes_solved, "error", "TaskExecutionError")
                  /\ cleanup_called'
                  /\ UNCHANGED <<visited_urls, callv>>]_vars

C5_Witness ==
    /\ Returned
    /\ max_retries_per_quiz = 0
    /\ submit_calls = 1
    /\ submit_response = [correct |-> FALSE, url |-> NoUrl, quiz |-> current_url]
    /\ result.final_status = "error"

\* C6: a correct verdict ends the quiz: the orchestrator goes on to the
\* verdict's next_url, and without one the sequence ends completed with
\* quizzes_solved the number of quizzes processed.
C6_CorrectAdvances ==
    [][(VerdictArrives /\ submit_response'.correct)
          => /\ AdvancesTo(submit_response'.url)
             /\ (result' = NoResult => current_url' # current_url)]_vars

C6_Witness ==
    /\ Returned
    /\ Len(visited_urls) = NumUrls
    /\ submit_response.correct /\ submit_response.url = NoUrl
    /\ result = QuizResult(TRUE, NumUrls, "completed", "None")

\* C7: a quiz after the first is started only by the step that delivers the
\* previous quiz's verdict, and its URL is the one that verdict supplied.
C7_StrictlySequential ==
    [][(Len(visited_urls') > Len(visited_urls) /\ visited_urls # <<>>)
          => /\ VerdictArrives
             /\ submit_response'.quiz = visited_urls[Len(visited_urls)]
             /\ visited_urls' = Append(visited_urls, submit_response'.url)
             /\ current_url' = submit_response'.url
             /\ pc' \in {"pw_start", "page"}]_vars

C7_Witness ==
    /\ Len(visited_urls) = 2
    /\ pc = "page"
    /\ render_calls = 1 /\ solve_calls = 0
    /\ submit_response.quiz = visited_urls[1]
    /\ submit_response.url = visited_urls[2]

\* C8: after an incorrect verdict with a next_url, the quiz is attempted
\* again while retry_count is below max_retries_per_quiz and
\* _should_skip_to_next is false; once retry_count has reached
\* max_retries_per_quiz the orchestrator goes on to next_url.
C8_RetryThenSkip ==
    [][(VerdictArrives /\ ~submit_response'.correct /\ submit_response'.url # NoUrl)
          => /\ (retry_count < max_retries_per_quiz
                   /\ ~ShouldSkipToNext(retry_count, remaining_time)) => Retries
             /\ retry_count >= max_retries_per_quiz
                   => AdvancesTo(submit_response'.url)]_vars

C8_Witness ==
    /\ timeout = 180
    /\ max_retries_per_quiz = 2
    /\ visited_urls = <<1, 2>>
    /\ quizzes_solved = 1
    /\ submit_response = [correct |-> FALSE, url |-> 2, quiz |-> 1]
    /\ pc = "page"

\* C9 as stated: after an incorrect verdict with a next_url the orchestrator
\* skips to it whenever less than 30 seconds remain and at least one
\* attempt has been made, or less than 60 remain and at least two.
C9_SkipsUnderTimePressure ==
    [][(/\ VerdictArrives
        /\ ~submit_response'.correct
        /\ submit_response'.url # NoUrl
        /\ \/ timeout - now < SkipAfterOneBelow /\ submit_calls >= 1
           \/ timeout - now < SkipAfterTwoBelow /\ submit_calls >= 2)
          => AdvancesTo(submit_response'.url)]_vars

\* C10 as stated: an authentication or validation failure of the solve or
\* submit step ends the quiz at once, with final_status error.
C10_NonRetryableAborts ==
    [][(/\ pc \in {"solve", "submit"}
        /\ retry_count' = retry_count + 1
        /\ last_error' \in {"authentication", "validation"})
          => /\ result'.final_status = "error"
             /\ pc' \notin {"retry_sleep", "solve", "submit"}]_vars

\* ======================================================================
\* Part 2: ErrorHandler (src/src/error_handler.py)
\* ======================================================================
MaxAttempt == 1030
RetryCap == 3

\* sys.float_info.max_exp: a float power of 2.0 ** 1024 or more does not
\* exist, and the ** of line 149 raises OverflowError instead.
FloatMaxExp == 1024

\* ErrorHandler.__init__: base_delay, exponential_base and max_delay are
\* floats; the model takes whole values, exponential_base a power of two.
BaseDelays == {1, 2}
ExponentialBases == {1, 2, 4}
MaxDelays == {10, 30}

Min(a, b) == IF a <= b THEN a ELSE b

\* b ** n, computed exactly while it is at most cap; above cap only the
\* fact that it is above cap is kept.
RECURSIVE PowFrom(_, _, _, _)
PowFrom(acc, b, n, cap) ==
    IF n = 0 \/ b = 1 \/ acc > cap THEN acc ELSE PowFrom(acc * b, b, n - 1, cap)

PowUpTo(b, n, cap) == PowFrom(1, b, n, cap)

\* The binary exponent of a power of two.
Log2(x) == CHOOSE k \in 0..30 : PowUpTo(2, k, x) = x

\* ErrorHandler.calculate_delay.  exponential_base ** attempt raises when
\* the power has exponent FloatMaxExp or more; the product with base_delay
\* does not raise, and min caps it.
CalculateDelay(base_delay, exponential_base, max_delay, n) ==
    IF Log2(exponential_base) * n >= FloatMaxExp
    THEN [raised |-> "OverflowError", value |-> 0]
    ELSE [raised |-> "None",
          value |-> Min(base_delay * PowUpTo(exponential_base, n, max_delay),
                        max_delay)]

\* ---------------------------------------------------- calculate_delay alone
DelayInit ==
    /\ OrchIdle
    /\ EhAtRest
    /\ SubAtRest
    /\ AgentAtRest
    /\ MoreAtRest

\* ErrorHandler(base_delay, max_delay, exponential_base) is constructed.
HandlerConstructed ==
    /\ wr_pc = "idle"
    /\ cd_delay = NoDelay
    /\ eh_base_delay' \in BaseDelays
    /\ eh_exponential_base' \in ExponentialBases
    /\ eh_max_delay' \in MaxDelays
    /\ UNCHANGED <<notEh, cdv, wrcfg, wrv>>

\* calculate_delay(attempt) is called.
DelayCalculated ==
    /\ wr_pc = "idle"
    /\ cd_delay = NoDelay
    /\ \E n \in 0..MaxAttempt :
         /\ cd_attempt' = n
         /\ cd_delay' = CalculateDelay(eh_base_delay, eh_exponential_base,
                                       eh_max_delay, n)
    /\ UNCHANGED <<notEh, ehcfg, wrcfg, wrv>>

DelayNext ==
    \/ HandlerConstructed
    \/ DelayCalculated

DelaySpec == DelayInit /\ [][DelayNext]_vars

\* min(base_delay * exponential_base^n, max_delay) over the integers.
BackoffFormula(n) ==
    Min(eh_base_delay * PowUpTo(eh_exponential_base, n, eh_max_delay), eh_max_delay)

\* C13 as stated: for every attempt n >= 0 calculate_delay(n) returns
\* min(base_delay * exponential_base^n, max_delay), which never exceeds
\* max_delay and is not below the delay of attempt n - 1.
C13_DelayIsCappedExponential ==
    cd_delay # NoDelay =>
        /\ cd_delay.raised = "None"
        /\ cd_delay.value = BackoffFormula(cd_attempt)
        /\ cd_delay.value <= eh_max_delay
        /\ cd_attempt > 0 => BackoffFormula(cd_attempt - 1) <= cd_delay.value

\* ------------------------------------------------------------- with_retry
\* What func can raise: one exception class per ErrorCategory.
OpErrors == { Exc("AuthenticationError", "authentication"),
              Exc("ValidationError", "validation"),
              Exc("TimeoutError", "timeout"),
              Exc("BrowserError", "browser"),
              Exc("NetworkError", "network"),
              Exc("LLMAPIError", "llm_api"),
              Exc("DataProcessingError", "data_processing"),
              Exc("TaskExecutionError", "task_execution"),
              Exc("RuntimeError", "unknown") }

\* retry_on arguments: None, and two tuples of exception classes.
RetryOnChoices == { {}, {"NetworkError"}, {"NetworkError", "AuthenticationError"} }

NonRetryableCategories == {"authentication", "validation"}
RetryableCategories == {"timeout", "browser", "network", "llm_api",
                        "data_processing", "task_execution"}

\* ErrorHandler.classify_error: the category an exception carries, or the
\* one its class name and message give it.
ClassifyError(e) == e.category

\* ErrorHandler.is_retryable
IsRetryable(category) ==
    IF category \in NonRetryableCategories THEN FALSE
    ELSE category \in RetryableCategories

\* The except clause of with_retry (lines 299-341) for exception e of func.
\* Every branch logs with `function=..., error=..., **context` before it
\* acts: a context holding one of those keys makes the log call itself
\* raise TypeError.
RetryDecision(e, n, max_retries, retry_on, collides) ==
    IF collides THEN "log_raises"
    ELSE IF retry_on # {} /\ e.type \notin retry_on THEN "raise"
    ELSE IF ~IsRetryable(ClassifyError(e)) THEN "raise"
    ELSE IF n >= max_retries THEN "raise"
    ELSE "sleep"

RetryInit ==
    /\ OrchIdle
    /\ EhAtRest
    /\ SubAtRest
    /\ AgentAtRest
    /\ MoreAtRest

\* with_retry(func, max_retries=..., retry_on=..., context=...) is called,
\* directly or by the wrapper of wrap_with_error_handling (lines 399-421),
\* which passes {"function": func.__name__} when it was given no context.
WithRetryCalled ==
    /\ wr_pc = "idle"
    /\ \E caller \in {"direct", "decorator"}, context_given \in BOOLEAN :
         wr_context_collides' = (caller = "decorator" /\ ~context_given)
    /\ wr_max_retries' \in 0..RetryCap
    /\ wr_retry_on' \in RetryOnChoices
    /\ wr_pc' = "call"
    /\ wr_attempt' = 0
    /\ wr_calls' = 1
    /\ wr_sleeps' = <<>>
    /\ wr_last_error' = NoError
    /\ wr_raised' = NoError
    /\ UNCHANGED <<notEh, ehcfg, cdv>>

\* func returns (lines 276-289).
FuncReturns ==
    /\ wr_pc = "call"
    /\ wr_pc' = IF wr_attempt > 0 /\ wr_context_collides THEN "raised" ELSE "returned"
    /\ wr_raised' = IF wr_attempt > 0 /\ wr_context_collides
                    THEN Exc("TypeError", "unknown") ELSE NoError
    /\ UNCHANGED <<notEh, ehcfg, cdv, wrcfg, wr_attempt, wr_calls, wr_sleeps, wr_last_error>>

\* func raises e (lines 291-341).
FuncRaises ==
    /\ wr_pc = "call"
    /\ \E e \in OpErrors :
         LET d == RetryDecision(e, wr_attempt, wr_max_retries, wr_retry_on,
                                wr_context_collides)
             delay == CalculateDelay(eh_base_delay, eh_exponential_base,
                                     eh_max_delay, wr_attempt)
         IN  /\ wr_last_error' = e
             /\ IF d = "sleep" /\ delay.raised = "None"
                THEN /\ wr_pc' = "sleep"
                     /\ wr_sleeps' = Append(wr_sleeps, delay.value)
                     /\ UNCHANGED wr_raised
                ELSE /\ wr_pc' = "raised"
                     /\ wr_raised' = IF d = "log_raises" THEN Exc("TypeError", "unknown")
                                     ELSE IF d = "sleep" THEN Exc(delay.raised, "unknown")
                                     ELSE e
                     /\ UNCHANGED wr_sleeps
    /\ UNCHANGED <<notEh, ehcfg, cdv, wrcfg, wr_attempt, wr_calls>>

\* asyncio.sleep(delay) ends: next iteration of the for loop (line 273).
SleepDone ==
    /\ wr_pc = "sleep"
    /\ wr_attempt' = wr_attempt + 1
    /\ wr_calls' = wr_calls + 1
    /\ wr_pc' = "call"
    /\ UNCHANGED <<notEh, ehcfg, cdv, wrcfg, wr_sleeps, wr_last_error, wr_raised>>

RetryNext ==
    \/ HandlerConstructed
    \/ WithRetryCalled
    \/ FuncReturns
    \/ FuncRaises
    \/ SleepDone

RetrySpec == RetryInit /\ [][RetryNext]_vars

\* The step being taken is a call of func ending with an exception.
FuncFails == wr_pc = "call" /\ wr_pc' \in {"sleep", "raised"}

\* C11 as stated: an error of category authentication or validation is
\* re-raised at once and func is not called again, whatever max_retries is;
\* an error of one of the six retryable categories is followed by another
\* call of func unless max_retries retries have been made, and then it is
\* re-raised.  (Read for calls that pass no retry_on filter.)
C11_CategoryDecidesRetry ==
    [][wr_retry_on = {} =>
       /\ (FuncFails /\ wr_last_error'.category \in NonRetryableCategories)
            => /\ wr_pc' = "raised"
               /\ wr_raised' = wr_last_error'
               /\ wr_calls' = wr_attempt + 1
       /\ (FuncFails /\ wr_last_error'.category \in RetryableCategories)
            => IF wr_attempt < wr_max_retries
               THEN wr_pc' = "sleep"
               ELSE /\ wr_pc' = "raised"
                    /\ wr_raised' = wr_last_error'
                    /\ wr_calls' = wr_max_retries + 1
       /\ wr_pc = "sleep" => (wr_pc' = "call" /\ wr_calls' = wr_calls + 1)]_vars

\* C12 as stated: func is called at most max_retries + 1 times; when
\* with_retry ends on a retryable error, func was called max_retries + 1
\* times and that error is the one raised; when it returns after k calls it
\* has slept calculate_delay(i) after failed call i + 1 for i = 0..k-2, and
\* no sleep follows the last call.  (Read for calls that pass no retry_on
\* filter.)
C12_CallsAndSleeps ==
    /\ wr_calls <= wr_max_retries + 1
    /\ (wr_pc = "raised" /\ wr_retry_on = {} /\ IsRetryable(wr_last_error.category))
          => /\ wr_calls = wr_max_retries + 1
             /\ wr_raised = wr_last_error
    /\ wr_pc = "returned"
          => wr_sleeps = [i \in 1..(wr_calls - 1) |-> BackoffFormula(i - 1)]
    /\ wr_pc \in {"call", "returned", "raised"} => Len(wr_sleeps) = wr_calls - 1

\* ======================================================================
\* Part 3: AnswerSubmitter (src/src/answer_submitter.py)
\* ======================================================================
SubmitRetryCap == 4

\* The cap of _retry_submission's delay: min(2 ** retry_count, 10).
SubmitDelayCap == 10

\* What one POST can end with: a success status whose body is a valid
\* SubmitResponse, is not JSON, is a JSON object that fails validation, or
\* is JSON but no object; an error status; or no response at all
\* (httpx.RequestError: timeout, connection failure).
Replies == {"valid", "not_json", "bad_fields", "not_object",
            "status_4xx", "status_5xx", "request_error"}

\* The keywords ErrorHandler.handle_error passes to logger.error itself
\* (error_handler.py:364-372), next to **additional_context.
HandleErrorKeywords == {"context", "error", "error_type", "category", "retryable"}

\* The additional_context of the four handle_error calls of submit_answer.
HttpStatusContext == {"status_code", "response_text", "retry_count", "submit_url"}
RequestErrorContext == {"error", "retry_count", "submit_url"}
ValidationContext == {"error", "retry_count", "submit_url"}
UnexpectedContext == {"exception_message", "exception_type", "retry_count", "submit_url"}

\* ErrorHandler.handle_error returns; with a key of additional_context that
\* is also one of its own keywords the logger.error call raises TypeError.
HandleErrorReturns(additional_context) ==
    additional_context \cap HandleErrorKeywords = {}

DuplicateKeyword == Exc("TypeError", "unknown")
SubmitNetworkError == Exc("NetworkError", "network")
SubmitValidationError == Exc("ValidationError", "validation")

\* response.json() fails: json.JSONDecodeError, whose class name puts it in
\* data_processing unless its message holds "invalid" ("Invalid control
\* character", "Invalid \escape"), which puts it in validation.
JSONDecodeErrors == { Exc("JSONDecodeError", "data_processing"),
                      Exc("JSONDecodeError", "validation") }

\* The exceptions submit_answer's try block (lines 72-123) can end with for
\* a reply, and the except clause each reaches (lines 125-234): the outcome
\* of one call of submit_answer, "return", "retry" or the exception raised.
SubmitOutcomes(reply, rc, max_retries) ==
    IF reply = "valid" THEN {[do |-> "return", exc |-> NoError]}
    ELSE IF reply \in {"status_4xx", "status_5xx"}
    THEN IF ~HandleErrorReturns(HttpStatusContext)
         THEN {[do |-> "raise", exc |-> DuplicateKeyword]}
         ELSE IF reply = "status_5xx" /\ rc < max_retries
         THEN {[do |-> "retry", exc |-> NoError]}
         ELSE {[do |-> "raise", exc |-> SubmitNetworkError]}
    ELSE IF reply = "request_error"
    THEN IF ~HandleErrorReturns(RequestErrorContext)
         THEN {[do |-> "raise", exc |-> DuplicateKeyword]}
         ELSE IF rc < max_retries
         THEN {[do |-> "retry", exc |-> NoError]}
         ELSE {[do |-> "raise", exc |-> SubmitNetworkError]}
    ELSE IF reply = "bad_fields"
    THEN IF ~HandleErrorReturns(ValidationContext)
         THEN {[do |-> "raise", exc |-> DuplicateKeyword]}
         ELSE {[do |-> "raise", exc |-> SubmitValidationError]}
    ELSE IF ~HandleErrorReturns(UnexpectedContext)
    THEN {[do |-> "raise", exc |-> DuplicateKeyword]}
    ELSE IF reply = "not_json"
    THEN {[do |-> "raise", exc |-> e] : e \in JSONDecodeErrors}
    ELSE {[do |-> "raise", exc |-> Exc("TypeError", "unknown")]}

\* _retry_submission: the delay slept before retry number rc.
SubmitDelay(rc) == Min(PowUpTo(2, rc, SubmitDelayCap), SubmitDelayCap)

SubmitInit ==
    /\ OrchIdle
    /\ EhAtRest
    /\ SubAtRest
    /\ AgentAtRest
    /\ MoreAtRest

\* AnswerSubmitter(max_retries).submit_answer(...) is called: the payload
\* is built and the POST is sent (lines 72-92).
SubmitCalled ==
    /\ sub_pc = "idle"
    /\ sub_max_retries' \in 0..SubmitRetryCap
    /\ sub_pc' = "post"
    /\ sub_posts' = 1
    /\ UNCHANGED <<notSub, sub_retry_count, sub_sleeps, sub_reply, sub_raised>>

\* The POST in flight ends (lines 92-234).
PostEnds ==
    /\ sub_pc = "post"
    /\ \E reply \in Replies :
         \E out \in SubmitOutcomes(reply, sub_retry_count, sub_max_retries) :
            /\ sub_reply' = reply
            /\ IF out.do = "retry"
               THEN \* _retry_submission up to its sleep (lines 259-270)
                    /\ sub_retry_count' = sub_retry_count + 1
                    /\ sub_sleeps' = Append(sub_sleeps, SubmitDelay(sub_retry_count + 1))
                    /\ sub_pc' = "sleep"
                    /\ UNCHANGED sub_raised
               ELSE /\ sub_pc' = IF out.do = "return" THEN "returned" ELSE "raised"
                    /\ sub_raised' = out.exc
                    /\ UNCHANGED <<sub_retry_count, sub_sleeps>>
    /\ UNCHANGED <<notSub, sub_max_retries, sub_posts>>

\* asyncio.sleep(delay) ends and submit_answer is called again (270-274).
SubmitSleepDone ==
    /\ sub_pc = "sleep"
    /\ sub_pc' = "post"
    /\ sub_posts' = sub_posts + 1
    /\ UNCHANGED <<notSub, sub_max_retries, sub_retry_count, sub_sleeps, sub_reply,
                   sub_raised>>

SubmitNext ==
    \/ SubmitCalled
    \/ PostEnds
    \/ SubmitSleepDone

SubmitSpec == SubmitInit /\ [][SubmitNext]_vars

\* The step being taken is the end of a POST.
PostDone == sub_pc = "post" /\ sub_pc' # "post"

\* C14 as stated: a POST that ends with a 5xx status or a network-level
\* request error is followed by another POST while fewer than max_retries
\* retries have been made, and by an exception after that; at most
\* max_retries + 1 POSTs are sent; a 4xx status is never followed by another
\* POST, its error is raised at once.
C14_RetriesServerAndNetworkErrors ==
    [][/\ (PostDone /\ sub_reply' \in {"status_5xx", "request_error"})
            => IF sub_retry_count < sub_max_retries
               THEN sub_pc' = "sleep"
               ELSE sub_pc' = "raised" /\ sub_posts = sub_max_retries + 1
       /\ (PostDone /\ sub_reply' = "status_4xx")
            => sub_pc' = "raised" /\ sub_raised' = SubmitNetworkError
       /\ sub_pc = "sleep" => (sub_pc' = "post" /\ sub_posts' = sub_posts + 1)
       /\ sub_posts' <= sub_max_retries' + 1]_vars

\* C15 as stated: a success status whose body is not JSON, or whose correct
\* field is missing or ill-typed, makes submit_answer raise an error of the
\* validation category, with no further POST.
C15_MalformedBodyIsValidationError ==
    [][(PostDone /\ sub_reply' \in {"not_json", "bad_fields"})
          => /\ sub_pc' = "raised"
             /\ sub_raised'.category = "validation"
             /\ sub_posts' = sub_posts]_vars

\* ======================================================================
\* Part 4: LLMAgent._parse_answer (src/src/llm_agent.py)
\* ======================================================================
\* A text is the sequence of its characters.  A number is <<sign, mantissa,
\* exponent of ten>> with the mantissa not a multiple of ten.
Digits == <<"0", "1", "2", "3", "4", "5", "6", "7", "8", "9">>
UpperCase == <<"A", "B", "C", "D", "E", "F", "G", "H", "I", "J", "K", "L", "M",
               "N", "O", "P", "Q", "R", "S", "T", "U", "V", "W", "X", "Y", "Z">>
LowerCase == <<"a", "b", "c", "d", "e", "f", "g", "h", "i", "j", "k", "l", "m",
               "n", "o", "p", "q", "r", "s", "t", "u", "v", "w", "x", "y", "z">>
Whitespace == {" ", "\n"}

IsDigit(c) == \E i \in 1..10 : Digits[i] = c
DigitValue(c) == (CHOOSE i \in 1..10 : Digits[i] = c) - 1

\* str.strip
Strip(s) ==
    LET keep == {i \in 1..Len(s) : s[i] \notin Whitespace}
    IN  IF keep = {} THEN <<>>
        ELSE SubSeq(s, CHOOSE i \in keep : \A j \in keep : i <= j,
                       CHOOSE i \in keep : \A j \in keep : i >= j)

\* str.lower
LowerChar(c) ==
    IF \E i \in 1..26 : UpperCase[i] = c
    THEN LowerCase[CHOOSE i \in 1..26 : UpperCase[i] = c]
    ELSE c

Lower(s) == [i \in 1..Len(s) |-> LowerChar(s[i])]

\* sub in s
Contains(s, sub) ==
    \E i \in 1..(Len(s) - Len(sub) + 1) : SubSeq(s, i, i + Len(sub) - 1) = sub

StartsWith(s, i, lit) ==
    i + Len(lit) - 1 <= Len(s) /\ SubSeq(s, i, i + Len(lit) - 1) = lit

\* The end of the longest run of digits of s that starts at i (i - 1 when
\* there is none).
DigitRunEnd(s, i) ==
    CHOOSE j \in (i - 1)..Len(s) :
        /\ \A k \in i..j : IsDigit(s[k])
        /\ j = Len(s) \/ ~IsDigit(s[j + 1])

\* int() of a sequence of digits
RECURSIVE DigitsToInt(_)
DigitsToInt(d) ==
    IF d = <<>> THEN 0
    ELSE 10 * DigitsToInt(SubSeq(d, 1, Len(d) - 1)) + DigitValue(d[Len(d)])

\* The number sign * mantissa * 10^exponent, in its one representation.
RECURSIVE Number(_, _, _)
Number(sign, mantissa, exponent) ==
    IF mantissa = 0 THEN Zero
    ELSE IF mantissa % 10 = 0 THEN Number(sign, mantissa \div 10, exponent + 1)
    ELSE <<sign, mantissa, exponent>>

\* int() and float() of a numeral [-]digits[.digits] followed by the power
\* of ten e10.
NumeralValue(numeral, e10) ==
    LET neg == numeral[1] = "-"
        body == IF neg THEN SubSeq(numeral, 2, Len(numeral)) ELSE numeral
        whole == DigitRunEnd(body, 1)
        frac == IF whole < Len(body) THEN SubSeq(body, whole + 2, Len(body)) ELSE <<>>
    IN  Number(IF neg THEN -1 ELSE 1,
               DigitsToInt(SubSeq(body, 1, whole) \o frac),
               e10 - Len(frac))

\* (the last match instead of the first)
NumberMatchStartLast(s) ==
    LET starts == {i \in 1..Len(s) :
                      \/ IsDigit(s[i])
                      \/ s[i] = "-" /\ i < Len(s) /\ IsDigit(s[i + 1])}
    IN  IF starts = {} THEN 0 ELSE CHOOSE i \in starts : \A j \in starts : i >= j

\* re.findall(r'-?\d+\.?\d*', s): where the first match starts (0: no match)
\* and where it ends.
NumberMatchStart(s) ==
    LET starts == {i \in 1..Len(s) :
                      \/ IsDigit(s[i])
                      \/ s[i] = "-" /\ i < Len(s) /\ IsDigit(s[i + 1])}
    IN  IF starts = {} THEN 0 ELSE CHOOSE i \in starts : \A j \in starts : i <= j

NumberMatchEnd(s, i) ==
    LET whole == DigitRunEnd(s, IF s[i] = "-" THEN i + 1 ELSE i)
    IN  IF whole < Len(s) /\ s[whole + 1] = "." THEN DigitRunEnd(s, whole + 2) ELSE whole

\* ---------------------------------------------------------------------
\* json.loads, for texts without backslash escapes and without the
\* literals NaN and Infinity.  A parse gives ok, the value and the index
\* after it.
TextNull == <<"n", "u", "l", "l">>
TextTrue == <<"t", "r", "u", "e">>
TextFalse == <<"f", "a", "l", "s", "e">>

At(s, i) == IF i \in 1..Len(s) THEN s[i] ELSE ""
Parsed(val, next) == [ok |-> TRUE, val |-> val, next |-> next]
NoParse == [ok |-> FALSE, val |-> NoneVal, next |-> 0]

SkipWhitespace(s, i) ==
    CHOOSE j \in i..(Len(s) + 1) :
        /\ \A k \in i..(j - 1) : s[k] \in Whitespace
        /\ j = Len(s) + 1 \/ s[j] \notin Whitespace

\* A string ends at the next quote; a control character inside it is an
\* error.
ParseString(s, i) ==
    LET quotes == {j \in (i + 1)..Len(s) : s[j] = "\""}
        close == CHOOSE j \in quotes : \A k \in quotes : j <= k
    IN  IF quotes = {} THEN NoParse
        ELSE IF \E k \in (i + 1)..(close - 1) : s[k] = "\n" THEN NoParse
        ELSE Parsed(StrVal(SubSeq(s, i + 1, close - 1)), close + 1)

\* -?(0|[1-9]\d*)(\.\d+)?([eE][-+]?\d+)?
ParseNumber(s, i) ==
    LET first == IF s[i] = "-" THEN i + 1 ELSE i
        whole == IF At(s, first) = "0" THEN first ELSE DigitRunEnd(s, first)
        frac == IF At(s, whole + 1) = "." /\ IsDigit(At(s, whole + 2))
                THEN DigitRunEnd(s, whole + 2) ELSE whole
        signed == At(s, frac + 2) \in {"+", "-"}
        expFirst == IF signed THEN frac + 3 ELSE frac + 2
        hasExp == At(s, frac + 1) \in {"e", "E"} /\ IsDigit(At(s, expFirst))
        expEnd == IF hasExp THEN DigitRunEnd(s, expFirst) ELSE frac
        e10 == IF ~hasExp THEN 0
               ELSE (IF At(s, frac + 2) = "-" THEN -1 ELSE 1)
                    * DigitsToInt(SubSeq(s, expFirst, expEnd))
    IN  IF ~IsDigit(At(s, first)) THEN NoParse
        ELSE Parsed(NumVal(NumeralValue(SubSeq(s, i, frac), e10)), expEnd + 1)

\* A later member of the same name replaces the earlier one.
PutMember(members, key, val) ==
    IF \E k \in 1..Len(members) : members[k][1] = key
    THEN [k \in 1..Len(members) |->
              IF members[k][1] = key THEN <<key, val>> ELSE members[k]]
    ELSE Append(members, <<key, val>>)

RECURSIVE ParseValue(_, _), ParseMembers(_, _, _), ParseElements(_, _, _)
ParseValue(s, i) ==
    LET c == At(s, i)
        inner == SkipWhitespace(s, i + 1)
    IN  IF c = "{" THEN
            IF At(s, inner) = "}" THEN Parsed(ObjVal(<<>>), inner + 1)
            ELSE ParseMembers(s, inner, <<>>)
        ELSE IF c = "[" THEN
            IF At(s, inner) = "]" THEN Parsed(ArrVal(<<>>), inner + 1)
            ELSE ParseElements(s, inner, <<>>)
        ELSE IF c = "\"" THEN ParseString(s, i)
        ELSE IF StartsWith(s, i, TextNull) THEN Parsed(NoneVal, i + 4)
        ELSE IF StartsWith(s, i, TextTrue) THEN Parsed(BoolVal(TRUE), i + 4)
        ELSE IF StartsWith(s, i, TextFalse) THEN Parsed(BoolVal(FALSE), i + 5)
        ELSE IF c = "-" \/ IsDigit(c) THEN ParseNumber(s, i)
        ELSE NoParse

ParseMembers(s, i, members) ==
    LET key == IF At(s, i) = "\"" THEN ParseString(s, i) ELSE NoParse
        colon == SkipWhitespace(s, key.next)
        val == IF key.ok /\ At(s, colon) = ":"
               THEN ParseValue(s, SkipWhitespace(s, colon + 1)) ELSE NoParse
        after == SkipWhitespace(s, val.next)
        found == PutMember(members, key.val.s, val.val)
    IN  IF ~val.ok THEN NoParse
        ELSE IF At(s, after) = "}" THEN Parsed(ObjVal(found), after + 1)
        ELSE IF At(s, after) = "," THEN ParseMembers(s, SkipWhitespace(s, after + 1), found)
        ELSE NoParse

ParseElements(s, i, elements) ==
    LET val == ParseValue(s, i)
        after == SkipWhitespace(s, val.next)
        found == Append(elements, val.val)
    IN  IF ~val.ok THEN NoParse
        ELSE IF At(s, after) = "]" THEN Parsed(ArrVal(found), after + 1)
        ELSE IF At(s, after) = "," THEN ParseElements(s, SkipWhitespace(s, after + 1), found)
        ELSE NoParse

\* json.loads(s): ok is FALSE where it raises JSONDecodeError.
JsonLoads(s) ==
    LET r == ParseValue(s, SkipWhitespace(s, 1))
    IN  IF r.ok /\ SkipWhitespace(s, r.next) = Len(s) + 1 THEN r ELSE NoParse

\* bool(v)
Truthy(v) ==
    CASE v.t = "none" -> FALSE
      [] v.t = "bool" -> v.b
      [] v.t = "num" -> v.n # Zero
      [] v.t = "str" -> v.s # <<>>
      [] OTHER -> v.m # <<>>

\* ---------------------------------------------------------------------
\* _parse_answer
AnswerFormats == {"boolean", "number", "string", "base64", "json"}

TextYes == <<"y", "e", "s">>
TextNo == <<"n", "o">>
TextJson == <<"j", "s", "o", "n">>
\* The grave accent, which no string of this language can hold.
Grave == "grave"
Fence == <<Grave, Grave, Grave>>

\* re.search of line 1137 (a fence, "json" or not, white space, the shortest
\* {...} that white space and a fence follow): the group of the first match,
\* <<>> without a match.
FencedObject(s) ==
    LET Open(a) == SkipWhitespace(s, IF StartsWith(s, a + 3, TextJson) THEN a + 7 ELSE a + 3)
        Closes(a) == {q \in (Open(a) + 1)..Len(s) :
                         s[q] = "}" /\ StartsWith(s, SkipWhitespace(s, q + 1), Fence)}
        starts == {a \in 1..Len(s) :
                      StartsWith(s, a, Fence) /\ At(s, Open(a)) = "{" /\ Closes(a) # {}}
        a == CHOOSE x \in starts : \A y \in starts : x <= y
    IN  IF starts = {} THEN <<>>
        ELSE SubSeq(s, Open(a), CHOOSE q \in Closes(a) : \A r \in Closes(a) : q <= r)

\* re.search(r'\{.*\}', s, re.DOTALL): the match, <<>> without one.
BracedObject(s) ==
    LET opens == {i \in 1..Len(s) : s[i] = "{"}
        first == CHOOSE i \in opens : \A j \in opens : i <= j
        closes == {j \in 1..Len(s) : s[j] = "}" /\ j > first}
    IN  IF opens = {} \/ closes = {} THEN <<>>
        ELSE SubSeq(s, first, CHOOSE j \in closes : \A k \in closes : j >= k)

\* The handler of lines 1150-1153: the stripped text is the answer.
CoercionFailedRaises(text) == Raises("JSONDecodeError")

CoercionFailed(text) == Gives(StrVal(text))

GivesLoaded(s, text) ==
    IF JsonLoads(s).ok THEN Gives(JsonLoads(s).val) ELSE CoercionFailed(text)

ParseAnswer(content, answer_format, results) ==
    IF content = NoneText THEN Raises("AttributeError")
    ELSE
    LET text == Strip(content)
        lower == Lower(text)
        start == NumberMatchStart(text)
        num_str == SubSeq(text, start, NumberMatchEnd(text, start))
    IN  CASE answer_format = "boolean" ->
                 IF Contains(lower, TextTrue) \/ Contains(lower, TextYes)
                 THEN Gives(BoolVal(TRUE))
                 ELSE IF Contains(lower, TextFalse) \/ Contains(lower, TextNo)
                 THEN Gives(BoolVal(FALSE))
                 ELSE IF JsonLoads(text).ok
                 THEN Gives(BoolVal(Truthy(JsonLoads(text).val)))
                 ELSE CoercionFailed(text)
          [] answer_format = "number" ->
                 IF start # 0 THEN Gives(NumVal(NumeralValue(num_str, 0)))
                 ELSE GivesLoaded(text, text)
          [] answer_format = "string" ->
                 IF JsonLoads(text).ok /\ JsonLoads(text).val.t = "str"
                 THEN Gives(JsonLoads(text).val)
                 ELSE Gives(StrVal(text))
          [] answer_format = "base64" ->
                 IF StrVal(text) \in DOMAIN results THEN Gives(results[StrVal(text)])
                 ELSE Gives(StrVal(text))
          [] answer_format = "json" ->
                 IF JsonLoads(text).ok THEN Gives(JsonLoads(text).val)
                 ELSE IF FencedObject(text) # <<>> THEN GivesLoaded(FencedObject(text), text)
                 ELSE IF BracedObject(text) # <<>> THEN GivesLoaded(BracedObject(text), text)
                 ELSE CoercionFailed(text)

\* ---------------------------------------------------------------------
\* The text of a typed answer: str() of a Python bool, int or float and
\* json.dumps of a JSON value.
Zeros(k) == [i \in 1..k |-> "0"]

RECURSIVE IntText(_)
IntText(k) ==
    IF k < 10 THEN <<Digits[k + 1]>> ELSE IntText(k \div 10) \o <<Digits[(k % 10) + 1]>>

\* repr of a float writes the digits d with the point after the first decpt
\* of them, and with an exponent when decpt is not in -3..16.
FloatText(d, decpt) ==
    IF decpt > 16 \/ decpt < -3
    THEN <<d[1]>> \o (IF Len(d) > 1 THEN <<".">> \o SubSeq(d, 2, Len(d)) ELSE <<>>)
         \o <<"e", IF decpt > 0 THEN "+" ELSE "-">>
         \o (IF decpt - 1 \in -9..9 THEN <<"0">> ELSE <<>>)
         \o IntText(IF decpt > 0 THEN decpt - 1 ELSE 1 - decpt)
    ELSE IF decpt <= 0 THEN <<"0", ".">> \o Zeros(-decpt) \o d
    ELSE IF decpt >= Len(d) THEN d \o Zeros(decpt - Len(d)) \o <<".", "0">>
    ELSE SubSeq(d, 1, decpt) \o <<".">> \o SubSeq(d, decpt + 1, Len(d))

NumberText(n, float) ==
    (IF n[1] < 0 THEN <<"-">> ELSE <<>>)
    \o (IF float THEN FloatText(IntText(n[2]), Len(IntText(n[2])) + n[3])
        ELSE IntText(n[2]) \o Zeros(n[3]))

RECURSIVE JsonDumps(_), JoinDumps(_, _)
JsonDumps(v) ==
    CASE v.t = "none" -> TextNull
      [] v.t = "bool" -> IF v.b THEN TextTrue ELSE TextFalse
      [] v.t = "num" -> NumberText(v.n, v.n[3] < 0)
      [] v.t = "str" -> <<"\"">> \o v.s \o <<"\"">>
      [] v.t = "obj" -> <<"{">> \o JoinDumps(v.m, TRUE) \o <<"}">>
      [] OTHER -> <<"[">> \o JoinDumps(v.m, FALSE) \o <<"]">>

JoinDumps(items, named) ==
    IF items = <<>> THEN <<>>
    ELSE (IF named
          THEN <<"\"">> \o items[1][1] \o <<"\"", ":", " ">> \o JsonDumps(items[1][2])
          ELSE JsonDumps(items[1]))
         \o (IF Len(items) > 1 THEN <<",", " ">> ELSE <<>>)
         \o JoinDumps(Tail(items), named)

\* ---------------------------------------------------------------------
\* _parse_answer alone: the final texts a model turn can hold (None: a turn
\* with neither tool calls nor content), and the texts of typed answers.
FinalContents == {
    NoneText,
    <<"t", "r", "u", "e">>,
    <<"F", "a", "l", "s", "e">>,
    <<"y", "e", "s">>,
    <<"8">>,
    <<"4", "2">>,
    <<"-", "7">>,
    <<"3", ".", "5">>,
    <<"1", "e", "-", "0", "7">>,
    <<"5", ".">>,
    <<"T", "h", "e", " ", "a", "n", "s", "w", "e", "r", " ", "i", "s", " ", "4", "2">>,
    <<"n", "o", "t", " ", "a", " ", "n", "u", "m", "b", "e", "r">>,
    <<" ", "4", "2", " ">>,
    <<" ", "m", "a", "y", "b", "e", "\n">>,
    <<>>,
    <<"{", "\"", "a", "\"", ":", " ", "1", "}">>,
    <<"\"", "P", "a", "r", "i", "s", "\"">>,
    <<"R", "e", "s", "u", "l", "t", ":", " ", "{", "\"", "a", "\"", ":", " ", "1", "}">>,
    <<Grave, Grave, Grave, "j", "s", "o", "n", "\n", "{", "\"", "a", "\"", ":", " ", "1", "}", "\n", Grave, Grave, Grave>>,
    <<Grave, Grave, Grave, "j", "s", "o", "n", "\n", "{", "a", "}", "\n", Grave, Grave, Grave, " ", "{", "}">>,
    <<"n", "u", "l", "l">>,
    <<"0">>,
    <<"c", "1">>,
    <<"{", "}">>,
    <<"{", "\"", "a", "\"", ":", " ", "1">>,
    <<"x", "-", "5">>}

DataUri == <<"d", "a", "t", "a", ":", "x">>
ResultsChoices == {<<>>, [k \in {StrVal(<<"c", "1">>)} |-> StrVal(DataUri)]}

Typed(format, value, float, python) ==
    [format |-> format, value |-> value, float |-> float, python |-> python]

IntAnswers == {Zero, <<1, 8, 0>>, <<1, 42, 0>>, <<-1, 7, 0>>, <<1, 15, 2>>}
FloatAnswers == {Zero, <<1, 42, 0>>, <<1, 35, -1>>, <<-1, 15, -1>>, <<1, 25, -2>>,
           <<1, 1, -7>>, <<1, 25, -6>>, <<1, 1, 16>>}
ObjectAnswers == {
    ObjVal(<<>>),
    ObjVal(<< <<<<"a">>, NumVal(<<1, 1, 0>>)>> >>),
    ObjVal(<< <<<<"n", "a", "m", "e">>, StrVal(<<"J", "o", "h", "n">>)>>,
              <<<<"a", "g", "e">>, NumVal(<<1, 3, 1>>)>> >>),
    ObjVal(<< <<<<"a">>, ObjVal(<< <<<<"b">>, BoolVal(TRUE)>> >>)>>,
              <<<<"c">>, ArrVal(<<NumVal(<<1, 25, -1>>), NoneVal>>)>> >>),
    ObjVal(<< <<<<"x">>, StrVal(<<"1", "e", "5">>)>> >>)}

TypedAnswers ==
    {Typed("boolean", BoolVal(b), FALSE, py) : b \in BOOLEAN, py \in BOOLEAN}
    \cup {Typed("number", NumVal(n), FALSE, TRUE) : n \in IntAnswers}
    \cup {Typed("number", NumVal(n), TRUE, TRUE) : n \in FloatAnswers}
    \cup {Typed("json", o, FALSE, FALSE) : o \in ObjectAnswers}

\* str(answer) of a Python value, json.dumps(answer) otherwise.
AnswerText(a) ==
    CASE a.format = "boolean" /\ a.python ->
             IF a.value.b THEN <<"T", "r", "u", "e">> ELSE <<"F", "a", "l", "s", "e">>
      [] a.format = "number" -> NumberText(a.value.n, a.float)
      [] OTHER -> JsonDumps(a.value)

ParseInit ==
    /\ OrchIdle
    /\ EhAtRest
    /\ SubAtRest
    /\ LoopAtRest
    /\ MoreAtRest
    /\ pa_pc = "idle"
    /\ pa_out = Gives(NoneVal)
    /\ pa_results \in ResultsChoices
    /\ \/ /\ pa_typed = NoTyped
          /\ pa_content \in FinalContents
          /\ pa_format \in AnswerFormats
       \/ /\ pa_typed \in TypedAnswers
          /\ pa_content = AnswerText(pa_typed)
          /\ pa_format = pa_typed.format

\* self._parse_answer(content, answer_format) is called and ends.
ParseAnswerCalled ==
    /\ pa_pc = "idle"
    /\ pa_out' = ParseAnswer(pa_content, pa_format, pa_results)
    /\ pa_pc' = "done"
    /\ UNCHANGED <<notAgent, llmv, pa_content, pa_format, pa_results, pa_typed>>

ParseNext == ParseAnswerCalled

ParseSpec == ParseInit /\ [][ParseNext]_vars

\* A value of the answer shape: a bool, a number, any JSON value.
HasShape(v, answer_format) ==
    CASE answer_format = "boolean" -> v.t = "bool"
      [] answer_format = "number" -> v.t = "num"
      [] answer_format = "json" -> v.t # "str"
      [] OTHER -> v.t = "str"

ParseDone == pa_pc = "done"

\* C18: _parse_answer never raises, and for the shapes boolean, number and
\* structured it gives either a value of the declared shape or, when the
\* text cannot be coerced, the raw text unchanged.
C18_NeverRaisesFallsBackToRawText ==
    ParseDone =>
        /\ pa_out.raised = "None"
        /\ pa_format \in {"boolean", "number", "json"} =>
               \/ HasShape(pa_out.value, pa_format)
               \/ pa_out.value = StrVal(pa_content)
               \/ pa_format = "json" /\ pa_out = Gives(JsonLoads(pa_content).val)

\* C20: coercion is the identity on the text of a typed answer: the text of
\* a boolean as boolean gives that boolean, the text of a number as number
\* gives that number, the text of a JSON object as structured gives that
\* object.
C20_CoercionIsIdentityOnTypedText ==
    ParseDone /\ pa_typed # NoTyped => pa_out = Gives(pa_typed.value)

\* ======================================================================
\* Part 5: LLMAgent.solve_task and _execute_llm_loop (src/src/llm_agent.py)
\* ======================================================================
MaxIterations == 10
MaxToolCalls == 2

\* Parameter names and values of the tools.
TextFileId == <<"f", "i", "l", "e", "_", "i", "d">>
TextDfId == <<"d", "f", "_", "i", "d">>
TextResultId == <<"r", "e", "s", "u", "l", "t", "_", "i", "d">>
TextImageId == <<"i", "m", "a", "g", "e", "_", "i", "d">>
TextConditions == <<"c", "o", "n", "d", "i", "t", "i", "o", "n", "s">>
TextOperations == <<"o", "p", "e", "r", "a", "t", "i", "o", "n", "s">>
TextGroupBy == <<"g", "r", "o", "u", "p", "_", "b", "y">>
TextAnalysisType == <<"a", "n", "a", "l", "y", "s", "i", "s", "_", "t", "y", "p", "e">>
TextOptions == <<"o", "p", "t", "i", "o", "n", "s">>
TextPrompt == <<"p", "r", "o", "m", "p", "t">>
TextPath == <<"p", "a", "t", "h">>
TextColumn == <<"c", "o", "l", "u", "m", "n">>
TextStatistics == <<"s", "t", "a", "t", "i", "s", "t", "i", "c", "s">>
TextValueCounts == <<"v", "a", "l", "u", "e", "_", "c", "o", "u", "n", "t", "s">>

\* The parameters of the tools: those without a default, those with one.
Required(name) ==
    CASE name = "download_file" -> {<<"u", "r", "l">>, <<"f", "i", "l", "e", "_", "i", "d">>}
      [] name = "parse_file" -> {<<"f", "i", "l", "e", "_", "i", "d">>,
                                 <<"f", "i", "l", "e", "_", "t", "y", "p", "e">>,
                                 <<"d", "f", "_", "i", "d">>}
      [] name = "create_chart" -> {<<"d", "f", "_", "i", "d">>,
                                   <<"c", "h", "a", "r", "t", "_", "t", "y", "p", "e">>,
                                   <<"c", "o", "n", "f", "i", "g">>,
                                   <<"r", "e", "s", "u", "l", "t", "_", "i", "d">>}
      [] name = "get_value" -> {<<"r", "e", "s", "u", "l", "t", "_", "i", "d">>}
      [] name = "filter_data" -> {TextDfId, TextConditions, TextResultId}
      [] name = "aggregate_data" -> {TextDfId, TextOperations, TextResultId}
      [] name = "analyze_data" -> {TextDfId, TextAnalysisType, TextResultId}
      [] name = "process_image" -> {TextFileId, TextImageId}
      [] name = "analyze_image" -> {TextImageId, TextPrompt, TextResultId}
      [] name = "transcribe_audio" -> {TextFileId, TextResultId}
      [] OTHER -> {}

Defaulted(name) ==
    CASE name = "download_file" -> {<<"h", "e", "a", "d", "e", "r", "s">>}
      [] name = "parse_file" -> {<<"o", "p", "t", "i", "o", "n", "s">>}
      [] name = "get_value" -> {<<"p", "a", "t", "h">>}
      [] name = "aggregate_data" -> {TextGroupBy}
      [] name = "analyze_data" -> {TextOptions}
      [] OTHER -> {}

ToolNames == {"download_file", "parse_file", "create_chart", "get_value", "no_such_tool"}

\* The argument texts a model turn can supply.
ArgumentTexts(name) ==
    CASE name = "download_file" ->
             {<<"{", "\"", "u", "r", "l", "\"", ":", " ", "\"", "u", "\"", ",", " ", "\"", "f", "i", "l", "e", "_", "i", "d", "\"", ":", " ", "\"", "f", "\"", "}">>,
              <<"{", "\"", "u", "r", "l", "\"", ":", " ", "\"", "u", "\"">>,
              <<>>}
      [] name = "parse_file" ->
             {<<"{", "\"", "f", "i", "l", "e", "_", "i", "d", "\"", ":", " ", "\"", "f", "\"", ",", " ", "\"", "f", "i", "l", "e", "_", "t", "y", "p", "e", "\"", ":", " ", "\"", "c", "s", "v", "\"", ",", " ", "\"", "d", "f", "_", "i", "d", "\"", ":", " ", "\"", "d", "\"", "}">>,
              <<"[", "]">>}
      [] name = "create_chart" ->
             {<<"{", "\"", "d", "f", "_", "i", "d", "\"", ":", " ", "\"", "d", "\"", ",", " ", "\"", "c", "h", "a", "r", "t", "_", "t", "y", "p", "e", "\"", ":", " ", "\"", "b", "a", "r", "\"", ",", " ", "\"", "c", "o", "n", "f", "i", "g", "\"", ":", " ", "{", "}", ",", " ", "\"", "r", "e", "s", "u", "l", "t", "_", "i", "d", "\"", ":", " ", "\"", "c", "1", "\"", "}">>,
              <<"{", "}">>}
      [] name = "get_value" ->
             {<<"{", "\"", "r", "e", "s", "u", "l", "t", "_", "i", "d", "\"", ":", " ", "\"", "c", "1", "\"", "}">>}
      [] OTHER -> {<<"{", "}">>}

\* json.loads(tool_call.function.arguments) of each of these texts.
LoadedArguments ==
    [a \in UNION {ArgumentTexts(name) : name \in ToolNames} |-> JsonLoads(a)]

ToolCall(name, arguments) == [name |-> name, arguments |-> arguments]
ToolCalls == UNION {{ToolCall(name, a) : a \in ArgumentTexts(name)} : name \in ToolNames}
ToolCallLists == UNION {[1..k -> ToolCalls] : k \in 1..MaxToolCalls}

\* What the services a tool uses do: the download, the parser or the chart
\* generator works, raises, or (parse_json) gives something that is no table.
ToolEnvs == {"works", "raises", "no_table"}

Keys(args) == {args.m[k][1] : k \in 1..Len(args.m)}
Arg(args, key) == args.m[CHOOSE k \in 1..Len(args.m) : args.m[k][1] = key][2]
Hashable(v) == v.t \notin {"obj", "arr"}

\* func(**function_args) binds: function_args is a mapping that names every
\* parameter without a default and no unknown one.
Binds(name, args) ==
    /\ args.t = "obj"
    /\ Required(name) \subseteq Keys(args)
    /\ Keys(args) \subseteq Required(name) \cup Defaulted(name)

Context(files, dataframes, results) ==
    [files |-> files, dataframes |-> dataframes, results |-> results]
ToolResult(success, ctx) == [success |-> success, ctx |-> ctx]
Store(results, key, val) ==
    [k \in DOMAIN results \cup {key} |-> IF k = key THEN val ELSE results[k]]

\* options.get('column') of _tool_analyze_data is given and not empty.
HasColumn(args) ==
    /\ TextOptions \in Keys(args)
    /\ Arg(args, TextOptions).t = "obj"
    /\ TextColumn \in Keys(Arg(args, TextOptions))
    /\ Arg(Arg(args, TextOptions), TextColumn).t = "str"
    /\ Arg(Arg(args, TextOptions), TextColumn).s # <<>>

\* What the analysis engine gives _tool_aggregate_data (aggregate without
\* group_by: a table for lists of functions, a Series for function names)
\* and _tool_analyze_data (statistics: a table or a mapping; value_counts:
\* a Series), or "raises", which stands for every failure before the result
\* is stored.  A Series has a shape: it is stored among the dataframes, and
\* result.to_dict(orient='records') then raises TypeError.
AnalyzerResult(name, args, env) ==
    IF env = "raises" THEN "raises"
    ELSE IF name = "aggregate_data"
    THEN (IF env = "works" THEN "table" ELSE "series")
    ELSE LET analysis_type == Arg(args, TextAnalysisType)
         IN  IF TextOptions \in Keys(args) /\ Arg(args, TextOptions).t \notin {"obj", "none"}
             THEN "raises"
             ELSE IF analysis_type = StrVal(TextStatistics)
             THEN (IF env = "no_table" THEN "value" ELSE "table")
             ELSE IF analysis_type = StrVal(TextValueCounts)
             THEN (IF HasColumn(args) THEN "series" ELSE "raises")
             ELSE "raises"

\* _execute_tool(function_name, function_args) in the context ctx: the
\* success of the result it returns and the context it leaves.
ExecuteTool(name, args, ctx, env) ==
    LET file_id == Arg(args, <<"f", "i", "l", "e", "_", "i", "d">>)
        file_type == Arg(args, <<"f", "i", "l", "e", "_", "t", "y", "p", "e">>)
        df_id == Arg(args, <<"d", "f", "_", "i", "d">>)
        result_id == Arg(args, <<"r", "e", "s", "u", "l", "t", "_", "i", "d">>)
        image_id == Arg(args, TextImageId)
        failed == ToolResult(FALSE, ctx)
    IN  IF ~Binds(name, args) THEN failed
        ELSE CASE name = "download_file" ->
                      IF env = "works" /\ Hashable(file_id)
                      THEN ToolResult(TRUE, [ctx EXCEPT !.files = @ \cup {file_id}])
                      ELSE failed
               [] name = "parse_file" ->
                      IF ~Hashable(file_id) \/ file_id \notin ctx.files
                         \/ env = "raises" \/ ~Hashable(df_id)
                      THEN failed
                      ELSE IF file_type \in {StrVal(<<"p", "d", "f">>), StrVal(<<"c", "s", "v">>)}
                              /\ env = "works"
                      THEN ToolResult(TRUE, [ctx EXCEPT !.dataframes = @ \cup {df_id}])
                      ELSE IF file_type = StrVal(TextJson) /\ env = "works"
                      THEN ToolResult(TRUE, [ctx EXCEPT !.dataframes = @ \cup {df_id}])
                      ELSE IF file_type = StrVal(TextJson)
                      THEN ToolResult(TRUE, [ctx EXCEPT !.results = Store(@, df_id, ObjVal(<<>>))])
                      ELSE failed
               [] name = "create_chart" ->
                      IF Hashable(df_id) /\ df_id \in ctx.dataframes
                         /\ env = "works" /\ Hashable(result_id)
                      THEN ToolResult(TRUE, [ctx EXCEPT !.results = Store(@, result_id, StrVal(DataUri))])
                      ELSE failed
               [] name = "get_value" ->
                      IF ~Hashable(result_id) THEN failed
                      ELSE IF result_id \in DOMAIN ctx.results THEN ToolResult(TRUE, ctx)
                      ELSE IF result_id \in ctx.dataframes /\ env = "works" THEN ToolResult(TRUE, ctx)
                      ELSE failed
               [] name = "filter_data" ->
                      IF Hashable(df_id) /\ df_id \in ctx.dataframes
                         /\ env = "works" /\ Hashable(result_id)
                      THEN ToolResult(TRUE, [ctx EXCEPT !.dataframes = @ \cup {result_id}])
                      ELSE failed
               [] name \in {"aggregate_data", "analyze_data"} ->
                      IF ~Hashable(df_id) \/ df_id \notin ctx.dataframes THEN failed
                      ELSE LET analyzed == AnalyzerResult(name, args, env)
                           IN  IF analyzed = "raises" \/ ~Hashable(result_id) THEN failed
                               ELSE IF analyzed = "table"
                               THEN ToolResult(TRUE, [ctx EXCEPT !.dataframes = @ \cup {result_id}])
                               ELSE IF analyzed = "series"
                               THEN ToolResult(FALSE, [ctx EXCEPT !.dataframes = @ \cup {result_id}])
                               ELSE ToolResult(TRUE, [ctx EXCEPT !.results = Store(@, result_id, ObjVal(<<>>))])
               [] name = "process_image" ->
                      IF Hashable(file_id) /\ file_id \in ctx.files
                         /\ env = "works" /\ Hashable(image_id)
                      THEN ToolResult(TRUE, [ctx EXCEPT !.images = @ \cup {image_id}])
                      ELSE failed
               [] name = "analyze_image" ->
                      IF Hashable(image_id) /\ image_id \in ctx.images
                         /\ env = "works" /\ Hashable(result_id)
                      THEN ToolResult(TRUE, [ctx EXCEPT !.results = Store(@, result_id, StrVal(<<"t">>))])
                      ELSE failed
               [] name = "transcribe_audio" ->
                      IF Hashable(file_id) /\ file_id \in ctx.files
                         /\ env = "works" /\ Hashable(result_id)
                      THEN ToolResult(TRUE, [ctx EXCEPT !.results = Store(@, result_id, StrVal(<<"t">>))])
                      ELSE failed
               [] OTHER -> failed

AssistantMessage == [role |-> "assistant", tool_call_id |-> 0, error |-> FALSE]
\* A tool message that names the first call of the turn, whichever call it answers.
ToolMessageFirstId(id, error) == [role |-> "tool", tool_call_id |-> 1, error |-> error]
ToolMessage(id, error) == [role |-> "tool", tool_call_id |-> id, error |-> error]

\* What the reasoning service raises out of _call_llm_with_retry.
LlmErrors == {Exc("RateLimitError", "llm_api"), Exc("APIError", "llm_api"),
              Exc("Exception", "unknown")}

LoopInit ==
    /\ OrchIdle
    /\ EhAtRest
    /\ SubAtRest
    /\ AgentAtRest
    /\ MoreAtRest

\* range(max_iterations) has an iteration after this one.
LoopContinuesOneMore(iteration) == iteration + 1 < MaxIterations + 1

LoopContinues(iteration) == iteration + 1 < MaxIterations

\* solve_task(task): the context is reset, the messages are built and the
\* first turn is issued (lines 74-95, 285-296).
SolveTaskCalled ==
    /\ llm_pc = "idle"
    /\ \E answer_format \in AnswerFormats : llm_format' = answer_format
    /\ llm_files' = {}
    /\ llm_dataframes' = {}
    /\ llm_results' = <<>>
    /\ llm_appended' = <<>>
    /\ llm_iteration' = 0
    /\ llm_turns' = 1
    /\ llm_pc' = "turn"
    /\ UNCHANGED <<notAgent, pav, llm_response, llm_pending, llm_call_index,
                   llm_final_content, llm_out>>

\* The turn's response asks for tool calls: the assistant message is
\* appended (lines 305-321).
TurnRequestsTools ==
    /\ llm_pc = "turn"
    /\ \E tool_calls \in ToolCallLists : llm_pending' = tool_calls
    /\ llm_call_index' = 1
    /\ llm_appended' = <<AssistantMessage>>
    /\ llm_response' = "tool_calls"
    /\ llm_pc' = "tool"
    /\ UNCHANGED <<notAgent, pav, llm_format, llm_iteration, llm_turns, llmctx,
                   llm_final_content, llm_out>>

\* One tool call of the turn (lines 324-343): its arguments are loaded, the
\* tool is executed and its result is appended; after the last one the next
\* iteration issues its turn, or the loop is over (lines 288, 354-356).
ToolCallCarriedOut ==
    /\ llm_pc = "tool"
    /\ \E env \in ToolEnvs :
          LET tool_call == Head(llm_pending)
              function_args == LoadedArguments[tool_call.arguments]
              tool_result == ExecuteTool(tool_call.name, function_args.val,
                                    Context(llm_files, llm_dataframes, llm_results), env)
              message == ToolMessage(llm_call_index, ~tool_result.success)
              last == Len(llm_pending) = 1
          IN  IF ~function_args.ok
              THEN /\ llm_pc' = "raised"
                   /\ llm_out' = Raises("JSONDecodeError")
                   /\ UNCHANGED <<llm_pending, llm_call_index, llm_appended, llmctx,
                                  llm_iteration, llm_turns>>
              ELSE /\ llm_files' = tool_result.ctx.files
                   /\ llm_dataframes' = tool_result.ctx.dataframes
                   /\ llm_results' = tool_result.ctx.results
                   /\ llm_appended' = Append(llm_appended, message)
                   /\ llm_pending' = Tail(llm_pending)
                   /\ llm_call_index' = llm_call_index + 1
                   /\ IF ~last
                      THEN UNCHANGED <<llm_pc, llm_iteration, llm_turns, llm_out>>
                      ELSE IF LoopContinues(llm_iteration)
                      THEN /\ llm_pc' = "turn"
                           /\ llm_iteration' = llm_iteration + 1
                           /\ llm_turns' = llm_turns + 1
                           /\ UNCHANGED llm_out
                      ELSE /\ llm_pc' = "raised"
                           /\ llm_out' = Raises("RuntimeError")
                           /\ UNCHANGED <<llm_iteration, llm_turns>>
    /\ UNCHANGED <<notAgent, pav, llm_format, llm_response, llm_final_content>>

\* The turn's response asks for no tool call: its content is the final
\* answer (lines 345-352).
TurnGivesFinalAnswer ==
    /\ llm_pc = "turn"
    /\ \E final_content \in FinalContents :
          /\ llm_final_content' = final_content
          /\ llm_out' = ParseAnswer(final_content, llm_format, llm_results)
    /\ llm_pc' = IF llm_out'.raised = "None" THEN "returned" ELSE "raised"
    /\ llm_response' = "final"
    /\ UNCHANGED <<notAgent, pav, llm_format, llm_iteration, llm_turns, llm_pending,
                   llm_call_index, llm_appended, llmctx>>

\* The call of the reasoning service fails (lines 292-300).
TurnRaises ==
    /\ llm_pc = "turn"
    /\ \E e \in LlmErrors : llm_out' = Raises(e.type)
    /\ llm_pc' = "raised"
    /\ llm_response' = "error"
    /\ UNCHANGED <<notAgent, pav, llm_format, llm_iteration, llm_turns, llm_pending,
                   llm_call_index, llm_appended, llmctx, llm_final_content>>

LoopNext ==
    \/ SolveTaskCalled
    \/ TurnRequestsTools
    \/ ToolCallCarriedOut
    \/ TurnGivesFinalAnswer
    \/ TurnRaises

LoopSpec == LoopInit /\ [][LoopNext]_vars

\* ----------------------------------------------------------------------
\* Claims about the solve loop
LoopOver == llm_pc \in {"returned", "raised"}
TextNotANumber == <<"n", "o", "t", " ", "a", " ", "n", "u", "m", "b", "e", "r">>

\* The last tool call of a turn has been carried out.
TurnCarriedOut == llm_pc = "tool" /\ llm_pc' # "tool" /\ llm_pending' = <<>>

\* C16: the loop issues at most max_iterations turns; at the first turn
\* whose response asks for no tool call it ends, with what _parse_answer
\* gives for the turn's text; when the tool calls of the max_iterations-th
\* turn have been carried out it ends with the iteration limit error, and
\* no further turn is issued.
C16_AtMostMaxIterationsTurns ==
    /\ [](llm_turns <= MaxIterations)
    /\ [](llm_response = "final" =>
              /\ LoopOver
              /\ llm_out = ParseAnswer(llm_final_content, llm_format, llm_results)
              /\ llm_out.raised = "None" => llm_pc = "returned")
    /\ [][/\ LoopOver => llm_turns' = llm_turns
          /\ TurnCarriedOut /\ llm_turns = MaxIterations =>
                 llm_pc' = "raised" /\ llm_out' = Raises("RuntimeError")
          /\ TurnCarriedOut /\ llm_turns < MaxIterations =>
                 llm_pc' = "turn" /\ llm_turns' = llm_turns + 1]_vars

C16_Witness ==
    /\ llm_pc = "raised"
    /\ llm_out = Raises("RuntimeError")
    /\ llm_turns = MaxIterations
    /\ llm_response = "tool_calls"

\* C17: carrying out a tool call of a turn never ends the loop, whatever the
\* tool name and the argument text: a tool message with the id of the call
\* is appended, and the loop goes on to the next call or the next turn (after
\* the last turn, to the iteration limit error).
C17_ToolFailureNeverAborts ==
    [][llm_pc = "tool" =>
          /\ Len(llm_appended') = Len(llm_appended) + 1
          /\ llm_appended'[Len(llm_appended')].role = "tool"
          /\ llm_appended'[Len(llm_appended')].tool_call_id = llm_call_index
          /\ llm_pc' \in {"tool", "turn"} \/ llm_out' = Raises("RuntimeError")]_vars

\* A final text that holds no number.
HoldsNoNumber(content) == content # NoneText /\ NumberMatchStart(Strip(content)) = 0

TextTheAnswerIs42 ==
    <<"T", "h", "e", " ", "a", "n", "s", "w", "e", "r", " ", "i", "s", " ", "4", "2">>

\* s is a numeral: digits, after a minus sign or not, then a point and
\* digits or not.
IsNumeral(s) ==
    LET body == IF s # <<>> /\ s[1] = "-" THEN Tail(s) ELSE s
    IN  \E p \in 1..Len(body) :
            /\ \A i \in 1..p : IsDigit(body[i])
            /\ \/ p = Len(body)
               \/ body[p + 1] = "." /\ \A i \in (p + 2)..Len(body) : IsDigit(body[i])

NumeralsOf(s) == {ij \in (1..Len(s)) \X (1..Len(s)) : IsNumeral(SubSeq(s, ij[1], ij[2]))}

\* The first numeric substring of s: the longest of those that start first.
FirstNumeral(s) ==
    LET ij == CHOOSE x \in NumeralsOf(s) :
                  \A y \in NumeralsOf(s) : x[1] < y[1] \/ (x[1] = y[1] /\ x[2] >= y[2])
    IN  SubSeq(s, ij[1], ij[2])

\* C21: a solve whose first turn requests tool calls (download_file, or any
\* others) and whose second turn gives the final text "The answer is 42"
\* with the answer shape number returns the number 42 and is over after
\* these two turns; with the answer shape number, a final text that holds a
\* numeric substring gives the number its first numeric substring denotes.
C21_FirstNumericSubstring ==
    /\ llm_response = "final" /\ llm_format = "number" /\ llm_turns = 2
       /\ llm_final_content = TextTheAnswerIs42 =>
           llm_pc = "returned" /\ llm_out = Gives(NumVal(<<1, 42, 0>>))
    /\ llm_response = "final" /\ llm_format = "number" /\ llm_final_content # NoneText
       /\ NumeralsOf(Strip(llm_final_content)) # {} =>
           /\ llm_pc = "returned"
           /\ llm_out = Gives(NumVal(NumeralValue(FirstNumeral(Strip(llm_final_content)), 0)))

\* Only download_file stores a file.
C21_Witness ==
    /\ llm_pc = "returned"
    /\ llm_turns = 2
    /\ llm_files # {}
    /\ llm_format = "number"
    /\ llm_final_content = TextTheAnswerIs42
    /\ llm_out = Gives(NumVal(<<1, 42, 0>>))

\* ----------------------------------------------------------------------
\* Claims about the retries of the components
\* C22 as stated, for the submission client: the delays slept between its
\* successive retries are those of the backoff policy of the error handler,
\* delay(n) = min(base_delay * exponential_base^n, max_delay) for
\* n = 0, 1, 2, ...
C22_SubmitDelaysFollowPolicy ==
    \A i \in 1..Len(sub_sleeps) : sub_sleeps[i] = BackoffFormula(i - 1)

\* ======================================================================
\* Part 6: two sequences at once (src/src/api.py, quiz_orchestrator.py)
\* ======================================================================
\* Every accepted request runs solve_quiz_background as a task of its own.
\* The steps of Part 1 are taken here as far as they touch what two
\* sequences could share: the objects an orchestrator constructs, the
\* locals of its sequence and the global metrics collector.
ContextKeys == {"f"}

\* A constructor call gives an object no earlier call gave.
NewObjectShared(constructed) == 1

NewObject(constructed) == constructed + 1

InProgress(r) == rq_pc[r] \in {"render", "solve", "submit"}

\* The sequence of r ends (quiz_orchestrator.py:152-250): metrics are
\* recorded and cleanup closes the browser of its own browser manager.
SequenceEnds(r) ==
    /\ rq_pc' = [rq_pc EXCEPT ![r] = "done"]
    /\ heap_browser' = [heap_browser EXCEPT ![rq_objects[r].browser_manager] = "closed"]
    /\ metrics_quizzes' = metrics_quizzes + 1

\* solve_quiz_background constructs its orchestrator, which constructs its
\* components, and calls solve_quiz_sequence, which runs up to the first
\* page fetch (api.py:95-102, quiz_orchestrator.py:46-52, 104-141).
SequenceStarted(r) ==
    /\ rq_pc[r] = "accepted"
    /\ rq_objects' = [rq_objects EXCEPT ![r] =
                          [orchestrator |-> NewObject(heap_next),
                           browser_manager |-> NewObject(heap_next + 1),
                           llm_agent |-> NewObject(heap_next + 2)]]
    /\ heap_next' = heap_next + Len(Components)
    /\ \E initial_url \in Urls :
          /\ rq_current_url' = [rq_current_url EXCEPT ![r] = initial_url]
          /\ rq_visited_urls' = [rq_visited_urls EXCEPT ![r] = <<initial_url>>]
    /\ rq_quizzes_solved' = [rq_quizzes_solved EXCEPT ![r] = 0]
    /\ rq_pc' = [rq_pc EXCEPT ![r] = "render"]
    /\ UNCHANGED <<notConc, heap_browser, heap_context, metrics_quizzes>>

\* self.browser_manager.render_page(quiz_url) returns (lines 287-290).
SequencePageRendered(r) ==
    /\ rq_pc[r] = "render"
    /\ heap_browser' = [heap_browser EXCEPT ![rq_objects[r].browser_manager] = "open"]
    /\ rq_pc' = [rq_pc EXCEPT ![r] = "solve"]
    /\ UNCHANGED <<notConc, rq_objects, rq_current_url, rq_visited_urls,
                   rq_quizzes_solved, heap_context, heap_next, metrics_quizzes>>

\* self.llm_agent.solve_task(task) returns (line 334): the context of the
\* agent was reset and holds what the tools of this solve stored.
SequenceTaskSolved(r) ==
    /\ rq_pc[r] = "solve"
    /\ \E stored \in SUBSET ContextKeys :
          heap_context' = [heap_context EXCEPT ![rq_objects[r].llm_agent] = stored]
    /\ rq_pc' = [rq_pc EXCEPT ![r] = "submit"]
    /\ UNCHANGED <<notConc, rq_objects, rq_current_url, rq_visited_urls,
                   rq_quizzes_solved, heap_browser, heap_next, metrics_quizzes>>

\* _solve_single_quiz returns next_url (lines 135-150, 112-121).
SequenceVerdictArrived(r) ==
    /\ rq_pc[r] = "submit"
    /\ \E next_url \in Urls \cup {NoUrl} :
          /\ rq_current_url' = [rq_current_url EXCEPT ![r] = next_url]
          /\ IF next_url = NoUrl \/ InSeq(next_url, rq_visited_urls[r])
             THEN SequenceEnds(r) /\ UNCHANGED rq_visited_urls
             ELSE /\ rq_visited_urls' = [rq_visited_urls EXCEPT ![r] = Append(@, next_url)]
                  /\ rq_pc' = [rq_pc EXCEPT ![r] = "render"]
                  /\ UNCHANGED <<heap_browser, metrics_quizzes>>
    /\ rq_quizzes_solved' = [rq_quizzes_solved EXCEPT ![r] = @ + 1]
    /\ UNCHANGED <<notConc, rq_objects, heap_context, heap_next>>

\* A step of the sequence raises, or the deadline passes (lines 157-250).
SequenceFails(r) ==
    /\ InProgress(r)
    /\ SequenceEnds(r)
    /\ UNCHANGED <<notConc, rq_objects, rq_current_url, rq_visited_urls,
                   rq_quizzes_solved, heap_context, heap_next>>

ConcInit ==
    /\ OrchIdle
    /\ EhAtRest
    /\ SubAtRest
    /\ AgentAtRest
    /\ MoreAtRest

ConcNext ==
    \E r \in Requests :
        \/ SequenceStarted(r)
        \/ SequencePageRendered(r)
        \/ SequenceTaskSolved(r)
        \/ SequenceVerdictArrived(r)
        \/ SequenceFails(r)

ConcSpec == ConcInit /\ [][ConcNext]_vars

\* What belongs to the sequence of r: the locals of its task and the state
\* of the objects its orchestrator holds.
Own(r) ==
    <<rq_pc[r], rq_objects[r], rq_current_url[r], rq_visited_urls[r],
      rq_quizzes_solved[r],
      IF rq_objects[r] = NoObjects THEN <<>>
      ELSE <<heap_browser[rq_objects[r].browser_manager],
             heap_context[rq_objects[r].llm_agent]>>>>

ObjectsOf(r) ==
    IF rq_objects[r] = NoObjects THEN {}
    ELSE {rq_objects[r].orchestrator, rq_objects[r].browser_manager, rq_objects[r].llm_agent}

\* C23: two sequences hold no object in common, and under every
\* interleaving no step changes what belongs to two sequences: a step of
\* one sequence leaves the visited URLs, the progress counter, the browser
\* manager and the execution context of the other as they were.
C23_SequencesShareNoState ==
    /\ [](\A r, q \in Requests : r # q => ObjectsOf(r) \cap ObjectsOf(q) = {})
    /\ [][\A r, q \in Requests : r # q => Own(r)' = Own(r) \/ Own(q)' = Own(q)]_vars

C23_Witness ==
    /\ rq_pc[1] = "submit"
    /\ rq_pc[2] = "solve"
    /\ Len(rq_visited_urls[1]) = 2
    /\ rq_visited_urls[2] = <<rq_visited_urls[1][2]>>
    /\ heap_context[rq_objects[1].llm_agent] # {}
    /\ heap_context[rq_objects[2].llm_agent] = {}

\* ======================================================================
\* Part 7: ErrorHandler.classify_error (src/src/error_handler.py)
\* ======================================================================
\* An error is the name of its class, its message, and the category it
\* carries when its class derives from QuizSystemError ("none" otherwise).
\* The keywords classify_error looks for:
Kw403 == <<"4", "0", "3">>
KwForbidden == <<"f", "o", "r", "b", "i", "d", "d", "e", "n">>
KwUnauthorized == <<"u", "n", "a", "u", "t", "h", "o", "r", "i", "z", "e", "d">>
Kw400 == <<"4", "0", "0">>
KwValidation == <<"v", "a", "l", "i", "d", "a", "t", "i", "o", "n">>
KwInvalid == <<"i", "n", "v", "a", "l", "i", "d">>
KwTimeout == <<"t", "i", "m", "e", "o", "u", "t">>
KwPlaywright == <<"p", "l", "a", "y", "w", "r", "i", "g", "h", "t">>
KwBrowser == <<"b", "r", "o", "w", "s", "e", "r">>
KwHttp == <<"h", "t", "t", "p">>
KwConnection == <<"c", "o", "n", "n", "e", "c", "t", "i", "o", "n">>
KwNetwork == <<"n", "e", "t", "w", "o", "r", "k">>
KwOpenai == <<"o", "p", "e", "n", "a", "i">>
KwRatelimit == <<"r", "a", "t", "e", "l", "i", "m", "i", "t">>
KwApi == <<"a", "p", "i">>
KwParse == <<"p", "a", "r", "s", "e">>
KwDecode == <<"d", "e", "c", "o", "d", "e">>
KwJson == <<"j", "s", "o", "n">>
KwCsv == <<"c", "s", "v">>
KwPdf == <<"p", "d", "f">>

ErrorCategories == {"authentication", "validation", "timeout", "browser", "network",
                    "llm_api", "data_processing", "task_execution", "unknown"}

AnyIn(keywords, text) == \E keyword \in keywords : Contains(text, keyword)

\* The mutant looks for a timeout before it looks for a validation error.
ClassifyErrorTimeoutFirst(error) ==
    IF error.category # "none" THEN error.category
    ELSE LET error_type == Lower(error.type_name)
             error_msg == Lower(error.message)
         IN  IF AnyIn({Kw403, KwForbidden, KwUnauthorized}, error_msg) THEN "authentication"
             ELSE IF Contains(error_type, KwTimeout) \/ Contains(error_msg, KwTimeout)
                  THEN "timeout"
             ELSE IF AnyIn({Kw400, KwValidation, KwInvalid}, error_msg) THEN "validation"
             ELSE IF Contains(error_type, KwPlaywright) \/ Contains(error_msg, KwBrowser)
                  THEN "browser"
             ELSE IF AnyIn({KwHttp, KwConnection, KwNetwork}, error_type) THEN "network"
             ELSE IF AnyIn({KwOpenai, KwRatelimit, KwApi}, error_type) THEN "llm_api"
             ELSE IF AnyIn({KwParse, KwDecode, KwJson, KwCsv, KwPdf}, error_type)
                  THEN "data_processing"
             ELSE "unknown"

\* classify_error (lines 152-198): isinstance(error, QuizSystemError) first,
\* then the tests of type(error).__name__ and str(error).lower() in order.
ClassifyErrorText(error) ==
    IF error.category # "none" THEN error.category
    ELSE LET error_type == Lower(error.type_name)
             error_msg == Lower(error.message)
         IN  IF AnyIn({Kw403, KwForbidden, KwUnauthorized}, error_msg) THEN "authentication"
             ELSE IF AnyIn({Kw400, KwValidation, KwInvalid}, error_msg) THEN "validation"
             ELSE IF Contains(error_type, KwTimeout) \/ Contains(error_msg, KwTimeout)
                  THEN "timeout"
             ELSE IF Contains(error_type, KwPlaywright) \/ Contains(error_msg, KwBrowser)
                  THEN "browser"
             ELSE IF AnyIn({KwHttp, KwConnection, KwNetwork}, error_type) THEN "network"
             ELSE IF AnyIn({KwOpenai, KwRatelimit, KwApi}, error_type) THEN "llm_api"
             ELSE IF AnyIn({KwParse, KwDecode, KwJson, KwCsv, KwPdf}, error_type)
                  THEN "data_processing"
             ELSE "unknown"

\* Classes that derive from Exception only, and messages.
PlainTypeNames ==
    { <<"E", "x", "c", "e", "p", "t", "i", "o", "n">>,
      <<"V", "a", "l", "u", "e", "E", "r", "r", "o", "r">>,
      <<"T", "i", "m", "e", "o", "u", "t", "E", "r", "r", "o", "r">>,
      <<"E", "r", "r", "o", "r">>,
      <<"C", "o", "n", "n", "e", "c", "t", "i", "o", "n", "E", "r", "r", "o", "r">>,
      <<"H", "T", "T", "P", "S", "t", "a", "t", "u", "s", "E", "r", "r", "o", "r">>,
      <<"R", "a", "t", "e", "L", "i", "m", "i", "t", "E", "r", "r", "o", "r">>,
      <<"A", "P", "I", "S", "t", "a", "t", "u", "s", "E", "r", "r", "o", "r">>,
      <<"J", "S", "O", "N", "D", "e", "c", "o", "d", "e", "E", "r", "r", "o", "r">>,
      <<"P", "a", "r", "s", "e", "r", "E", "r", "r", "o", "r">> }

ErrorMessages ==
    { <<>>,
      <<"t", "e", "s", "t">>,
      <<"4", "0", "3", " ", "F", "o", "r", "b", "i", "d", "d", "e", "n">>,
      <<"u", "n", "a", "u", "t", "h", "o", "r", "i", "z", "e", "d", " ", "a", "c", "c", "e", "s", "s">>,
      <<"4", "0", "0", " ", "B", "a", "d", " ", "R", "e", "q", "u", "e", "s", "t">>,
      <<"v", "a", "l", "i", "d", "a", "t", "i", "o", "n", " ", "f", "a", "i", "l", "e", "d">>,
      <<"I", "n", "v", "a", "l", "i", "d", " ", "t", "i", "m", "e", "o", "u", "t">>,
      <<"t", "i", "m", "e", "o", "u", "t", " ", "o", "c", "c", "u", "r", "r", "e", "d">>,
      <<"B", "r", "o", "w", "s", "e", "r", " ", "c", "l", "o", "s", "e", "d">>,
      <<"c", "o", "n", "n", "e", "c", "t", "i", "o", "n", " ", "r", "e", "f", "u", "s", "e", "d">>,
      <<"r", "a", "t", "e", " ", "l", "i", "m", "i", "t", " ", "r", "e", "a", "c", "h", "e", "d">> }

\* QuizSystemError and its subclasses, with the category each constructor sets
\* (lines 28-109).
TaggedClasses ==
    { <<<<"A", "u", "t", "h", "e", "n", "t", "i", "c", "a", "t", "i", "o", "n", "E", "r", "r", "o", "r">>, "authentication">>,
      <<<<"V", "a", "l", "i", "d", "a", "t", "i", "o", "n", "E", "r", "r", "o", "r">>, "validation">>,
      <<<<"T", "i", "m", "e", "o", "u", "t", "E", "r", "r", "o", "r">>, "timeout">>,
      <<<<"B", "r", "o", "w", "s", "e", "r", "E", "r", "r", "o", "r">>, "browser">>,
      <<<<"N", "e", "t", "w", "o", "r", "k", "E", "r", "r", "o", "r">>, "network">>,
      <<<<"L", "L", "M", "A", "P", "I", "E", "r", "r", "o", "r">>, "llm_api">>,
      <<<<"D", "a", "t", "a", "P", "r", "o", "c", "e", "s", "s", "i", "n", "g", "E", "r", "r", "o", "r">>, "data_processing">>,
      <<<<"T", "a", "s", "k", "E", "x", "e", "c", "u", "t", "i", "o", "n", "E", "r", "r", "o", "r">>, "task_execution">>,
      <<<<"Q", "u", "i", "z", "S", "y", "s", "t", "e", "m", "E", "r", "r", "o", "r">>, "unknown">> }

ClassifiedErrors ==
    {[type_name |-> t, message |-> m, category |-> "none"] :
        t \in PlainTypeNames, m \in ErrorMessages}
    \cup {[type_name |-> c[1], message |-> m, category |-> c[2]] :
        c \in TaggedClasses, m \in ErrorMessages}

ClassifyErrorCalled ==
    /\ fn_pc = "idle"
    /\ \E error \in ClassifiedErrors :
          /\ fn_arg' = error
          /\ fn_out' = ClassifyErrorText(error)
    /\ fn_pc' = "classify_error"
    /\ UNCHANGED notFn

ClassifyInit ==
    /\ OrchIdle
    /\ EhAtRest
    /\ SubAtRest
    /\ AgentAtRest
    /\ MoreAtRest

ClassifyNext == ClassifyErrorCalled

ClassifySpec == ClassifyInit /\ [][ClassifyNext]_vars

Classified == fn_pc = "classify_error"

\* The rules for an error that carries no category, in order: the category,
\* where the keywords are looked for, and the keywords.
KeywordRules ==
    << [category |-> "authentication", in_type |-> {},
        in_message |-> {Kw403, KwForbidden, KwUnauthorized}],
       [category |-> "validation", in_type |-> {},
        in_message |-> {Kw400, KwValidation, KwInvalid}],
       [category |-> "timeout", in_type |-> {KwTimeout}, in_message |-> {KwTimeout}],
       [category |-> "browser", in_type |-> {KwPlaywright}, in_message |-> {KwBrowser}],
       [category |-> "network", in_type |-> {KwHttp, KwConnection, KwNetwork},
        in_message |-> {}],
       [category |-> "llm_api", in_type |-> {KwOpenai, KwRatelimit, KwApi},
        in_message |-> {}],
       [category |-> "data_processing",
        in_type |-> {KwParse, KwDecode, KwJson, KwCsv, KwPdf}, in_message |-> {}] >>

RuleMatches(rule, error) ==
    \/ AnyIn(rule.in_type, Lower(error.type_name))
    \/ AnyIn(rule.in_message, Lower(error.message))

\* The category the first matching rule of rules gives, "unknown" when none
\* matches.
FirstMatch(rules, error) ==
    LET matching == {i \in 1..Len(rules) : RuleMatches(rules[i], error)}
    IN  IF matching = {} THEN "unknown"
        ELSE rules[CHOOSE i \in matching : \A j \in matching : i <= j].category

\* The rules without the one for validation errors.
RulesWithoutValidation ==
    SelectSeq(KeywordRules, LAMBDA rule : rule.category # "validation")

\* C24 as stated: an error with a category gets it; any other error gets the
\* category of the first matching rule among authentication, timeout,
\* browser, network, llm_api and data_processing, and unknown when none
\* matches.
C24_ClassifiedByListedRules ==
    Classified =>
        /\ fn_out \in ErrorCategories
        /\ fn_arg.category # "none" => fn_out = fn_arg.category
        /\ fn_arg.category = "none" => fn_out = FirstMatch(RulesWithoutValidation, fn_arg)

\* C24, amended: between the rule for authentication and the rule for
\* timeouts stands the rule that a message holding "400", "validation" or
\* "invalid" gives validation; the keywords of authentication and validation
\* are looked for in the message only, those of network, llm_api and
\* data_processing in the type name only.
C24_ClassifiedByRulesInOrder ==
    Classified =>
        /\ fn_out \in ErrorCategories
        /\ fn_arg.category # "none" => fn_out = fn_arg.category
        /\ fn_arg.category = "none" => fn_out = FirstMatch(KeywordRules, fn_arg)

C24_Witness ==
    /\ Classified
    /\ fn_arg.category = "none"
    /\ Contains(Lower(fn_arg.message), KwInvalid)
    /\ Contains(Lower(fn_arg.message), KwTimeout)
    /\ fn_out = "validation"

\* ======================================================================
\* Part 8: the /quiz endpoint (src/src/api.py, src/src/models.py)
\* ======================================================================
\* A request body is text that is no JSON, a JSON value that is no object,
\* or a JSON object; of an object only the three fields of QuizRequest
\* matter. A field is "missing", or a value of the kinds below; a secret
\* that is a string has its text.
StudentSecret == <<"s">>

BodyEmails == {"missing", "not_an_email", "a@b.c", "x@y.z"}
SecretTexts == {<<>>, <<" ">>, <<"w">>, <<"s">>, <<" ", "s", " ">>}
BodySecrets ==
    {[kind |-> k, text |-> <<>>] : k \in {"missing", "not_a_string"}}
    \cup {[kind |-> "string", text |-> t] : t \in SecretTexts}
BodyUrls == {"missing", "not_a_url", "http://q/1", "http://q/2"}

RequestBodies ==
    {[kind |-> k, email |-> "missing", secret |-> [kind |-> "missing", text |-> <<>>],
      url |-> "missing"] :
        k \in {"no_json", "json_null", "json_array", "json_number", "json_string"}}
    \cup {[kind |-> "json_object", email |-> e, secret |-> x, url |-> u] :
        e \in BodyEmails, x \in BodySecrets, u \in BodyUrls}

\* QuizRequest(**body) with body an object (models.py:19-32): every field is
\* required, the secret is a string of at least one character that is not
\* all whitespace, and the model holds the stripped secret.
FieldsValid(body) ==
    /\ body.email \notin {"missing", "not_an_email"}
    /\ body.secret.kind = "string"
    /\ Len(body.secret.text) >= 1
    /\ Strip(body.secret.text) # <<>>
    /\ body.url \notin {"missing", "not_a_url"}

QuizRequest(body) ==
    [email |-> body.email, secret |-> Strip(body.secret.text), url |-> body.url]

\* validate_secret (api.py:61-72)
ValidateSecret(secret) == secret = StudentSecret

Response(status_code, content, tasks) ==
    [status_code |-> status_code, content |-> content, tasks |-> tasks]

\* handle_quiz (api.py:126-215) with the exception handlers of the
\* application (api.py:266-293): request.json() raises on text that is no
\* JSON; QuizRequest(**body) raises ValidationError on an object whose
\* fields are not valid and TypeError on a body that is no mapping, which
\* only the handler for Exception catches.
HandleQuiz(body) ==
    IF body.kind = "no_json" THEN Response(400, "Invalid JSON payload", <<>>)
    ELSE IF body.kind # "json_object" THEN Response(500, "Internal server error", <<>>)
    ELSE IF ~FieldsValid(body) THEN Response(400, "Invalid JSON payload", <<>>)
    ELSE IF ~ValidateSecret(QuizRequest(body).secret)
         THEN Response(403, "Invalid secret", <<>>)
    ELSE Response(200, "accepted", <<QuizRequest(body)>>)

HandleQuizCalled ==
    /\ fn_pc = "idle"
    /\ \E body \in RequestBodies :
          /\ fn_arg' = body
          /\ fn_out' = HandleQuiz(body)
    /\ fn_pc' = "handle_quiz"
    /\ UNCHANGED notFn

ApiInit ==
    /\ OrchIdle
    /\ EhAtRest
    /\ SubAtRest
    /\ AgentAtRest
    /\ MoreAtRest

ApiNext == HandleQuizCalled

ApiSpec == ApiInit /\ [][ApiNext]_vars

Handled == fn_pc = "handle_quiz"

\* What the claim calls a payload that is valid JSON and passes validation.
PayloadValid(body) == body.kind = "json_object" /\ FieldsValid(body)

\* C25: a background solve is scheduled exactly when the body is valid JSON,
\* passes validation and carries the configured secret, and the answer is
\* then 200 "accepted"; a wrong secret is answered 403 and an invalid or
\* incomplete payload 400, neither scheduling a solve.
C25_SchedulesExactlyWhenValid ==
    Handled =>
        /\ fn_out.tasks # <<>> <=>
              PayloadValid(fn_arg) /\ Strip(fn_arg.secret.text) = StudentSecret
        /\ fn_out.tasks # <<>> =>
              fn_out.status_code = 200 /\ fn_out.content = "accepted"
        /\ PayloadValid(fn_arg) /\ Strip(fn_arg.secret.text) # StudentSecret =>
              fn_out.status_code = 403 /\ fn_out.tasks = <<>>
        /\ ~PayloadValid(fn_arg) =>
              fn_out.status_code = 400 /\ fn_out.tasks = <<>>

\* ======================================================================
\* Further claims about the orchestrator (Part 1, specification Spec)
\* ======================================================================
\* A step in which fetch_and_render or parse_quiz_page raises an Exception
\* out of _solve_single_quiz (quiz_orchestrator.py:287-309): the last
\* attempt of fetch_and_render fails at the page or at the launch, or the
\* page does not parse.
RenderOrParseFails ==
    /\ ~cleanup_called /\ cleanup_called'
    /\ \/ PageFails
       \/ PageRendered
       \/ CleanupReturns /\ cleanup_ret = "launch"

\* C26: when rendering or parsing the page of a quiz fails, solve_task and
\* submit_answer were not called for that quiz and never are, no retry of
\* the per-quiz loop is counted, and the sequence returns final_status
\* error, success false and as quizzes_solved the number of quizzes
\* finished before this one.
C26_PageFailureEndsSequence ==
    [][/\ RenderOrParseFails =>
            /\ result' # NoResult
            /\ result'.final_status = "error"
            /\ result'.success = FALSE
            /\ result'.quizzes_solved = Len(visited_urls) - 1
            /\ result'.quizzes_solved = quizzes_solved
            /\ solve_calls' = 0 /\ submit_calls' = 0 /\ retry_count' = 0
            /\ escaped' = "none"
       /\ cleanup_called =>
            /\ solve_calls' = solve_calls /\ submit_calls' = submit_calls
            /\ retry_count' = retry_count
            /\ result' = result]_vars

C26_Witness ==
    /\ pc = "done"
    /\ result.final_status = "error"
    /\ result.error = "BrowserError"
    /\ result.quizzes_solved = 1
    /\ Len(visited_urls) = 2
    /\ solve_calls = 0 /\ submit_calls = 0 /\ retry_count = 0

\* ======================================================================
\* Part 9: TaskParser (src/src/task_parser.py)
\* ======================================================================
\* The keywords _detect_answer_format looks for ("json" is TextJson):
KwBase64 == <<"b", "a", "s", "e", "6", "4">>
KwDataImage == <<"d", "a", "t", "a", ":", "i", "m", "a", "g", "e">>
KwChart == <<"c", "h", "a", "r", "t">>
KwVisualization == <<"v", "i", "s", "u", "a", "l", "i", "z", "a", "t", "i", "o", "n">>
KwImage == <<"i", "m", "a", "g", "e">>
KwObject == <<"o", "b", "j", "e", "c", "t">>
KwBrace == <<"{">>
KwTrue == <<"t", "r", "u", "e">>
KwFalse == <<"f", "a", "l", "s", "e">>
KwBoolean == <<"b", "o", "o", "l", "e", "a", "n">>
KwYesNo == <<"y", "e", "s", "/", "n", "o">>
KwNumber == <<"n", "u", "m", "b", "e", "r">>
KwCount == <<"c", "o", "u", "n", "t">>
KwSum == <<"s", "u", "m">>
KwAverage == <<"a", "v", "e", "r", "a", "g", "e">>
KwTotal == <<"t", "o", "t", "a", "l">>

\* The mutant looks for the keywords of a number first.
DetectAnswerFormatNumberFirst(instructions) ==
    LET instructions_lower == Lower(instructions)
    IN  IF AnyIn({KwNumber, KwCount, KwSum, KwAverage, KwTotal}, instructions_lower)
        THEN "number"
        ELSE IF AnyIn({KwBase64, KwDataImage, KwChart, KwVisualization, KwImage},
                      instructions_lower)
        THEN "base64"
        ELSE IF AnyIn({TextJson, KwObject}, instructions_lower)
                \/ Contains(instructions, KwBrace)
        THEN "json"
        ELSE IF AnyIn({KwTrue, KwFalse, KwBoolean, KwYesNo}, instructions_lower)
        THEN "boolean"
        ELSE "string"

\* _detect_answer_format (lines 243-274)
DetectAnswerFormat(instructions) ==
    LET instructions_lower == Lower(instructions)
    IN  IF AnyIn({KwBase64, KwDataImage, KwChart, KwVisualization, KwImage},
                 instructions_lower)
        THEN "base64"
        ELSE IF AnyIn({TextJson, KwObject}, instructions_lower)
                \/ Contains(instructions, KwBrace)
        THEN "json"
        ELSE IF AnyIn({KwTrue, KwFalse, KwBoolean, KwYesNo}, instructions_lower)
        THEN "boolean"
        ELSE IF AnyIn({KwNumber, KwCount, KwSum, KwAverage, KwTotal}, instructions_lower)
        THEN "number"
        ELSE "string"

\* Instructions: one or two of these phrases.
Phrases ==
    { <<"G", "e", "n", "e", "r", "a", "t", "e", " ", "a", " ", "c", "h", "a", "r", "t", " ">>,
      <<"a", "s", " ", "b", "a", "s", "e", "6", "4", " ">>,
      <<"d", "a", "t", "a", ":", "i", "m", "a", "g", "e", "/", "p", "n", "g", " ">>,
      <<"a", " ", "V", "i", "s", "u", "a", "l", "i", "z", "a", "t", "i", "o", "n", " ">>,
      <<"a", "n", " ", "I", "M", "A", "G", "E", " ">>,
      <<"R", "e", "t", "u", "r", "n", " ", "a", " ", "J", "S", "O", "N", " ">>,
      <<"t", "h", "e", " ", "O", "b", "j", "e", "c", "t", " ">>,
      <<"{", " ">>,
      <<"A", "n", "s", "w", "e", "r", " ", "t", "r", "u", "e", " ">>,
      <<"o", "r", " ", "F", "a", "l", "s", "e", " ">>,
      <<"a", " ", "B", "o", "o", "l", "e", "a", "n", " ">>,
      <<"y", "e", "s", "/", "n", "o", " ">>,
      <<"t", "h", "e", " ", "n", "u", "m", "b", "e", "r", " ">>,
      <<"C", "o", "u", "n", "t", " ", "t", "h", "e", " ", "r", "o", "w", "s", " ">>,
      <<"t", "h", "e", " ", "s", "u", "m", " ">>,
      <<"A", "v", "e", "r", "a", "g", "e", " ", "p", "r", "i", "c", "e", " ">>,
      <<"i", "n", " ", "t", "o", "t", "a", "l", " ">>,
      <<"a", " ", "s", "u", "m", "m", "a", "r", "y", " ">>,
      <<"N", "a", "m", "e", " ", "t", "h", "e", " ", "c", "i", "t", "y", " ">> }

InstructionTexts == Phrases \cup {a \o b : a, b \in Phrases}

DetectAnswerFormatCalled ==
    /\ fn_pc = "idle"
    /\ \E instructions \in InstructionTexts :
          /\ fn_arg' = instructions
          /\ fn_out' = DetectAnswerFormat(instructions)
    /\ fn_pc' = "_detect_answer_format"
    /\ UNCHANGED notFn

FormatInit ==
    /\ OrchIdle
    /\ EhAtRest
    /\ SubAtRest
    /\ AgentAtRest
    /\ MoreAtRest

FormatNext == DetectAnswerFormatCalled

FormatSpec == FormatInit /\ [][FormatNext]_vars

FormatDetected == fn_pc = "_detect_answer_format"

\* The keyword groups in their priority, each with the shape it gives.
ShapeGroups ==
    << [shape |-> "base64",
        keywords |-> {KwBase64, KwDataImage, KwChart, KwVisualization, KwImage}],
       [shape |-> "json", keywords |-> {TextJson, KwObject, KwBrace}],
       [shape |-> "boolean", keywords |-> {KwTrue, KwFalse, KwBoolean, KwYesNo}],
       [shape |-> "number",
        keywords |-> {KwNumber, KwCount, KwSum, KwAverage, KwTotal}] >>

Mentions(text, keywords) == AnyIn(keywords, Lower(text))

\* C27: the shape is that of the first group, in the order visual,
\* structured, boolean, number, of which the instructions mention a keyword,
\* and string when they mention none; instructions that mention both
\* "chart" and "count" give base64.
C27_FirstMatchingGroupWins ==
    FormatDetected =>
        /\ \A i \in 1..Len(ShapeGroups) :
              /\ Mentions(fn_arg, ShapeGroups[i].keywords)
              /\ \A j \in 1..(i - 1) : ~Mentions(fn_arg, ShapeGroups[j].keywords)
              => fn_out = ShapeGroups[i].shape
        /\ (\A i \in 1..Len(ShapeGroups) : ~Mentions(fn_arg, ShapeGroups[i].keywords))
              => fn_out = "string"
        /\ Mentions(fn_arg, {KwChart}) /\ Mentions(fn_arg, {KwCount}) => fn_out = "base64"

C27_Witness ==
    /\ FormatDetected
    /\ Mentions(fn_arg, {KwChart})
    /\ Mentions(fn_arg, {KwCount})
    /\ fn_out = "base64"

\* ----------------------------------------------------- _parse_submit_url
TextHttpColon == <<"h", "t", "t", "p", ":", "/", "/">>
TextHttpsColon == <<"h", "t", "t", "p", "s", ":", "/", "/">>
TextSubmit == <<"s", "u", "b", "m", "i", "t">>
TextEndpoint == <<"e", "n", "d", "p", "o", "i", "n", "t">>
TextPost == <<"p", "o", "s", "t">>
TextTo == <<"t", "o">>
TextAt == <<"a", "t">>

\* The characters that end a URL of url_pattern (line 196).
UrlStopChars ==
    Whitespace \cup {"<", ">", "\"", "{", "}", "|", "\\", "^", Grave, "[", "]"}

\* The end of the longest run of characters of s from i on that satisfy Ok
\* (i - 1 when there is none).
RunEnd(s, i, Ok(_)) ==
    CHOOSE j \in (i - 1)..Len(s) :
        /\ \A k \in i..j : Ok(s[k])
        /\ j < Len(s) => ~Ok(s[j + 1])

\* https?:// at i: the index after it, 0 when s does not have it there.
SchemeEnd(s, i) ==
    IF StartsWith(s, i, TextHttpColon) THEN i + Len(TextHttpColon)
    ELSE IF StartsWith(s, i, TextHttpsColon) THEN i + Len(TextHttpsColon)
    ELSE 0

\* https?://[^stop]+ at i, the scheme read in text t (s itself, or s in
\* lower case under re.IGNORECASE): the index of its last character, 0 when
\* there is no match.
UrlEnd(s, t, i, stop) ==
    LET b == SchemeEnd(t, i)
    IN  IF b = 0 \/ b > Len(s) THEN 0
        ELSE LET e == RunEnd(s, b, LAMBDA c : c \notin stop)
             IN  IF e < b THEN 0 ELSE e

\* re.findall(url_pattern, s) from index i on.
RECURSIVE FindUrls(_, _)
FindUrls(s, i) ==
    IF i > Len(s) THEN <<>>
    ELSE LET e == UrlEnd(s, s, i, UrlStopChars)
         IN  IF e = 0 THEN FindUrls(s, i + 1)
             ELSE <<SubSeq(s, i, e)>> \o FindUrls(s, e + 1)

\* str.rstrip(chars) and str.strip(chars)
RStripChars(s, chars) ==
    LET keep == {i \in 1..Len(s) : s[i] \notin chars}
    IN  IF keep = {} THEN <<>>
        ELSE SubSeq(s, 1, CHOOSE i \in keep : \A j \in keep : i >= j)

StripChars(s, chars) ==
    LET keep == {i \in 1..Len(s) : s[i] \notin chars}
    IN  IF keep = {} THEN <<>>
        ELSE SubSeq(s, CHOOSE i \in keep : \A j \in keep : i <= j,
                       CHOOSE i \in keep : \A j \in keep : i >= j)

\* _clean_url (lines 227-241)
CleanUrl(url) ==
    StripChars(RStripChars(url, {".", ",", ";", ":", "!", "?", ")"}), {"'", "\""})

\* The patterns of url_patterns (lines 211-215), in order: the word the
\* phrase starts with and, after whitespace, the words one of which follows.
UrlPatterns ==
    << [head |-> TextSubmit, mids |-> {TextTo, TextAt, TextEndpoint}],
       [head |-> TextEndpoint, mids |-> {}],
       [head |-> TextPost, mids |-> {TextTo, TextAt}] >>

NoMatch == [first |-> 0, last |-> 0]

\* The pattern matched at index i of s, case ignored: the bounds of its
\* group, the URL up to the next whitespace.
PatternAt(s, i, pattern) ==
    LET t == Lower(s)
        IsSpace(c) == c \in Whitespace
        IsSep(c) == c = ":" \/ c \in Whitespace
        a == i + Len(pattern.head)
        w == RunEnd(t, a, IsSpace)
        after_mid ==
            IF pattern.mids = {} THEN a
            ELSE IF w < a THEN 0
            ELSE IF \E mid \in pattern.mids : StartsWith(t, w + 1, mid)
                 THEN w + 1 + Len(CHOOSE mid \in pattern.mids : StartsWith(t, w + 1, mid))
                 ELSE 0
    IN  IF ~StartsWith(t, i, pattern.head) \/ after_mid = 0 THEN NoMatch
        ELSE LET c == RunEnd(t, after_mid, IsSep)
                 e == UrlEnd(s, t, c + 1, Whitespace)
             IN  IF c < after_mid \/ e = 0 THEN NoMatch
                 ELSE [first |-> c + 1, last |-> e]

\* re.search(pattern, s, re.IGNORECASE): the group of the leftmost match.
SearchPattern(s, pattern) ==
    LET starts == {i \in 1..Len(s) : PatternAt(s, i, pattern) # NoMatch}
    IN  IF starts = {} THEN NoMatch
        ELSE PatternAt(s, CHOOSE i \in starts : \A j \in starts : i <= j, pattern)

\* The URL the first pattern of url_patterns that matches names, stripped;
\* the empty text when none matches.
PhraseUrl(s) ==
    LET matching == {k \in 1..Len(UrlPatterns) : SearchPattern(s, UrlPatterns[k]) # NoMatch}
    IN  IF matching = {} THEN <<>>
        ELSE LET m == SearchPattern(s, UrlPatterns[CHOOSE k \in matching :
                                                      \A j \in matching : k <= j])
             IN  Strip(SubSeq(s, m.first, m.last))

FoundUrl(url) == [raised |-> "None", url |-> url]
NoUrlFound == [raised |-> "ValueError", url |-> <<>>]

HasSubmit(url) == Contains(Lower(url), TextSubmit)

FirstOf(urls, Ok(_)) == urls[CHOOSE i \in 1..Len(urls) :
                                 Ok(urls[i]) /\ \A j \in 1..(i - 1) : ~Ok(urls[j])]

\* _parse_submit_url (lines 181-225). A URL a phrase names starts with its
\* scheme, so urljoin (line 220) is never reached.
ParseSubmitUrl(instructions) ==
    LET urls == FindUrls(instructions, 1)
    IN  IF urls # <<>>
        THEN IF \E i \in 1..Len(urls) : HasSubmit(urls[i])
             THEN FoundUrl(CleanUrl(FirstOf(urls, HasSubmit)))
             ELSE FoundUrl(CleanUrl(urls[1]))
        ELSE IF PhraseUrl(instructions) # <<>>
        THEN FoundUrl(CleanUrl(PhraseUrl(instructions)))
        ELSE NoUrlFound

\* Decoded instructions: one or two sentences, each a phrase and a URL.
SentenceHeads ==
    { <<"S", "e", "e", " ">>,
      <<"P", "O", "S", "T", " ", "t", "o", " ">>,
      <<"S", "u", "b", "m", "i", "t", " ", "a", "t", ":", " ">>,
      <<"E", "n", "d", "p", "o", "i", "n", "t", ":", " ">>,
      <<>> }

SentenceUrls ==
    { <<"h", "t", "t", "p", ":", "/", "/", "a", "/", "x">>,
      <<"h", "t", "t", "p", ":", "/", "/", "e", "/", "z">>,
      <<"h", "t", "t", "p", "s", ":", "/", "/", "b", "/", "S", "u", "b", "m", "i", "t", ".">>,
      <<"h", "t", "t", "p", ":", "/", "/", "[", ":", ":", "1", "]", "/", "s">>,
      <<"H", "T", "T", "P", ":", "/", "/", "d", "/", "y">>,
      <<>> }

Sentences == {h \o u \o <<" ">> : h \in SentenceHeads, u \in SentenceUrls}

SubmitInstructions == Sentences \cup {a \o b : a, b \in Sentences}

ParseSubmitUrlCalled ==
    /\ fn_pc = "idle"
    /\ \E instructions \in SubmitInstructions :
          /\ fn_arg' = instructions
          /\ fn_out' = ParseSubmitUrl(instructions)
    /\ fn_pc' = "_parse_submit_url"
    /\ UNCHANGED notFn

SubmitUrlInit ==
    /\ OrchIdle
    /\ EhAtRest
    /\ SubAtRest
    /\ AgentAtRest
    /\ MoreAtRest

SubmitUrlNext == ParseSubmitUrlCalled

SubmitUrlSpec == SubmitUrlInit /\ [][SubmitUrlNext]_vars

SubmitUrlParsed == fn_pc = "_parse_submit_url"

\* C28: the endpoint is the first URL of the text that contains "submit";
\* when there is none, the URL a "submit to/at", "endpoint:" or "POST to/at"
\* phrase names; when there is none either, the first URL of the text; and
\* the call fails when the text holds no URL.
C28_SubmitThenPhraseThenFirst ==
    SubmitUrlParsed =>
        LET urls == FindUrls(fn_arg, 1)
            named == PhraseUrl(fn_arg)
        IN  IF \E i \in 1..Len(urls) : HasSubmit(urls[i])
            THEN fn_out = FoundUrl(CleanUrl(FirstOf(urls, HasSubmit)))
            ELSE IF named # <<>> THEN fn_out = FoundUrl(CleanUrl(named))
            ELSE IF urls # <<>> THEN fn_out = FoundUrl(CleanUrl(urls[1]))
            ELSE fn_out = NoUrlFound

\* -------------------------------- _extract_base64_content, _decode_base64
\* The printable characters of ASCII in the order of their codes, 32 to 126.
Printable ==
    << " ", "!", "\"", "#", "$", "%", "&", "'", "(", ")", "*", "+",
       ",", "-", ".", "/", "0", "1", "2", "3", "4", "5", "6", "7",
       "8", "9", ":", ";", "<", "=", ">", "?", "@", "A", "B", "C",
       "D", "E", "F", "G", "H", "I", "J", "K", "L", "M", "N", "O",
       "P", "Q", "R", "S", "T", "U", "V", "W", "X", "Y", "Z", "[",
       "\\", "]", "^", "_", Grave, "a", "b", "c", "d", "e", "f", "g",
       "h", "i", "j", "k", "l", "m", "n", "o", "p", "q", "r", "s",
       "t", "u", "v", "w", "x", "y", "z", "{", "|", "}", "~" >>

\* str.encode('utf-8') and bytes.decode('utf-8') on these characters; a byte
\* outside them is shown as "ctl".
CharCode(c) == 31 + CHOOSE i \in 1..Len(Printable) : Printable[i] = c
CodeChar(b) == IF b \in 32..126 THEN Printable[b - 31] ELSE "ctl"
Encode(text) == [i \in 1..Len(text) |-> CharCode(text[i])]
Decode(bytes) == [i \in 1..Len(bytes) |-> CodeChar(bytes[i])]

\* The alphabet of base64.
B64Chars == UpperCase \o LowerCase \o Digits \o <<"+", "/">>
IsB64Char(c) == \E i \in 1..Len(B64Chars) : B64Chars[i] = c
B64Char(v) == B64Chars[v + 1]
B64Value(c) == (CHOOSE i \in 1..Len(B64Chars) : B64Chars[i] = c) - 1
IsWordChar(c) == c = "_" \/ (IsB64Char(c) /\ c \notin {"+", "/"})

\* base64.b64encode
RECURSIVE B64Encode(_)
B64Encode(bytes) ==
    IF Len(bytes) = 0 THEN <<>>
    ELSE IF Len(bytes) = 1
    THEN <<B64Char(bytes[1] \div 4), B64Char((bytes[1] % 4) * 16), "=", "=">>
    ELSE IF Len(bytes) = 2
    THEN LET v == bytes[1] * 256 + bytes[2]
         IN  <<B64Char(v \div 1024), B64Char((v \div 16) % 64), B64Char((v % 16) * 4), "=">>
    ELSE LET v == bytes[1] * 65536 + bytes[2] * 256 + bytes[3]
         IN  <<B64Char(v \div 262144), B64Char((v \div 4096) % 64),
               B64Char((v \div 64) % 64), B64Char(v % 64)>>
             \o B64Encode(SubSeq(bytes, 4, Len(bytes)))

\* The bytes of the data characters of a base64 text, four characters
\* giving three bytes, a rest of three giving two and a rest of two one.
RECURSIVE B64Bytes(_)
B64Bytes(data) ==
    IF Len(data) < 2 THEN <<>>
    ELSE LET v1 == B64Value(data[1])
             v2 == B64Value(data[2])
         IN  IF Len(data) = 2 THEN <<v1 * 4 + v2 \div 16>>
             ELSE LET v3 == B64Value(data[3])
                  IN  IF Len(data) = 3
                      THEN <<v1 * 4 + v2 \div 16, (v2 % 16) * 16 + v3 \div 4>>
                      ELSE <<v1 * 4 + v2 \div 16, (v2 % 16) * 16 + v3 \div 4,
                             (v3 % 4) * 64 + B64Value(data[4])>>
                           \o B64Bytes(SubSeq(data, 5, Len(data)))

\* base64.b64decode(s, validate=True): data characters, then the padding
\* their number asks for.
B64Decode(text) ==
    LET d == RunEnd(text, 1, IsB64Char)
        p == Len(text) - d
        padded == \A i \in (d + 1)..Len(text) : text[i] = "="
    IN  IF padded /\ ((d % 4 = 0 /\ p = 0) \/ (d % 4 = 2 /\ p = 2) \/ (d % 4 = 3 /\ p = 1))
        THEN [ok |-> TRUE, bytes |-> B64Bytes(SubSeq(text, 1, d))]
        ELSE [ok |-> FALSE, bytes |-> <<>>]

MinBase64Len == 20
MinBareRun == 40

\* _is_base64 (lines 135-158)
IsBase64(text) ==
    /\ Len(text) >= MinBase64Len
    /\ B64Decode(text).ok
    /\ Len(B64Decode(text).bytes) > 0

GivesText(text) == [raised |-> "None", text |-> text]
NoContent == [raised |-> "ValueError", text |-> <<>>]

\* _decode_base64 (lines 160-179) of a text _is_base64 accepted.
DecodeBase64(content) == GivesText(Decode(B64Decode(content).bytes))

PadsThenAt(text, last, q, Ok(_)) ==
    /\ \A i \in (last + 1)..(last + q) : i <= Len(text) /\ text[i] = "="
    /\ Ok(last + q + 1)

\* A run of at least least base64 characters that starts at first, then up
\* to two "=", then a position that satisfies Ok: the index the match ends
\* at, the longest run and the most padding first; 0 when there is none.
RunMatchEnd(text, first, least, Ok(_)) ==
    LET ends == {<<last, q>> \in ((first + least - 1)..RunEnd(text, first, IsB64Char))
                                 \X (0..2) : PadsThenAt(text, last, q, Ok)}
    IN  IF ends = {} THEN 0
        ELSE LET best == CHOOSE e \in ends : \A f \in ends :
                             f[1] < e[1] \/ (f[1] = e[1] /\ f[2] <= e[2])
             IN  best[1] + best[2]

WordBoundary(text, i) ==
    (i > 1 /\ i - 1 <= Len(text) /\ IsWordChar(text[i - 1]))
        # (i >= 1 /\ i <= Len(text) /\ IsWordChar(text[i]))

IsQuote(text, i) == i >= 1 /\ i <= Len(text) /\ text[i] \in {"\"", "'"}

\* re.search of the quoted pattern (line 118) in the text of a script: the
\* group of the leftmost match, the empty text when there is none.
QuotedBase64(text) ==
    LET End(i) == RunMatchEnd(text, i + 1, MinBase64Len, LAMBDA k : IsQuote(text, k))
        starts == {i \in 1..Len(text) : IsQuote(text, i) /\ End(i) # 0}
    IN  IF starts = {} THEN <<>>
        ELSE LET i == CHOOSE i \in starts : \A j \in starts : i <= j
             IN  SubSeq(text, i + 1, End(i))

\* base64_pattern.findall(html) from index i on (lines 126-127).
RECURSIVE BareBase64(_, _)
BareBase64(html, i) ==
    IF i > Len(html) THEN <<>>
    ELSE LET e == IF WordBoundary(html, i)
                  THEN RunMatchEnd(html, i, MinBareRun, LAMBDA k : WordBoundary(html, k))
                  ELSE 0
         IN  IF e = 0 THEN BareBase64(html, i + 1)
             ELSE <<SubSeq(html, i, e)>> \o BareBase64(html, e + 1)

\* A page as BeautifulSoup gives it: its elements in document order, each
\* with its name, its text and its data-task attribute, and the markup.
Element(name, text, has_data_task, data_task) ==
    [name |-> name, text |-> text, has_data_task |-> has_data_task, data_task |-> data_task]

FirstIn(seq, Ok(_)) ==
    seq[CHOOSE i \in 1..Len(seq) : Ok(seq[i]) /\ \A j \in 1..(i - 1) : ~Ok(seq[j])]
SomeIn(seq, Ok(_)) == \E i \in 1..Len(seq) : Ok(seq[i])

\* _extract_base64_content (lines 84-133)
ExtractBase64Content(page) ==
    LET InTag(el) == el.name \in {"pre", "code", "div", "span"} /\ IsBase64(Strip(el.text))
        InAttribute(el) == el.has_data_task /\ IsBase64(el.data_task)
        InScript(el) == el.name = "script" /\ QuotedBase64(el.text) # <<>>
                           /\ IsBase64(QuotedBase64(el.text))
        matches == BareBase64(page.html, 1)
    IN  IF SomeIn(page.elements, InTag)
        THEN GivesText(Strip(FirstIn(page.elements, InTag).text))
        ELSE IF SomeIn(page.elements, InAttribute)
        THEN GivesText(FirstIn(page.elements, InAttribute).data_task)
        ELSE IF SomeIn(page.elements, InScript)
        THEN GivesText(QuotedBase64(FirstIn(page.elements, InScript).text))
        ELSE IF SomeIn(matches, IsBase64)
        THEN GivesText(FirstIn(matches, IsBase64))
        ELSE NoContent

\* parse_quiz_page up to the decoded instructions (lines 51-55).
RecoverInstructions(page) ==
    LET base64_content == ExtractBase64Content(page)
    IN  IF base64_content.raised # "None" THEN base64_content
        ELSE DecodeBase64(base64_content.text)

\* The markup positions, and the page that holds content at one of them. The
\* markup of an element position is written with the name t: only what
\* stands between the tags can match base64_pattern.
TagNames == {"pre", "code", "div", "span"}
Positions == TagNames \cup {"data-task", "script", "bare"}

Markup(open, content, close) == open \o content \o close

Embed(content, position) ==
    IF position \in TagNames
    THEN [elements |-> <<Element(position, content, FALSE, <<>>)>>,
          html |-> Markup(<<"<", "t", ">">>, content, <<"<", "/", "t", ">">>)]
    ELSE IF position = "data-task"
    THEN [elements |-> <<Element("div", <<"C">>, TRUE, content)>>,
          html |-> Markup(<<"<", "d", "i", "v", " ", "d", "a", "t", "a", "-", "t", "a", "s", "k", "=", "\"">>, content,
                          <<"\"", ">", "C", "<", "/", "d", "i", "v", ">">>)]
    ELSE IF position = "script"
    THEN [elements |-> <<Element("script", Markup(<<"v", "a", "r", " ", "t", " ", "=", " ", "\"">>, content, <<"\"", ";">>),
                                 FALSE, <<>>)>>,
          html |-> Markup(<<"<", "s", "c", "r", "i", "p", "t", ">", "v", "a", "r", " ", "t", " ", "=", " ", "\"">>, content,
                          <<"\"", ";", "<", "/", "s", "c", "r", "i", "p", "t", ">">>)]
    ELSE [elements |-> <<Element("p", content, FALSE, <<>>)>>,
          html |-> Markup(<<"<", "p", ">">>, content, <<"<", "/", "p", ">">>)]

\* Instruction texts: the beginnings of one sentence, of every length.
InstructionSentence ==
    <<"W", "h", "a", "t", " ", "i", "s", " ", "2", "+", "2", "?", " ", "S", "u", "b", "m", "i", "t", " ", "t", "o", " ", "h", "t", "t", "p", ":", "/", "/", "a", "/", "s">>

RoundTripTexts == {SubSeq(InstructionSentence, 1, n) : n \in 0..Len(InstructionSentence)}

ParseEmbeddedCalled ==
    /\ fn_pc = "idle"
    /\ \E text \in RoundTripTexts, position \in Positions :
          /\ fn_arg' = [instructions |-> text, position |-> position]
          /\ fn_out' = RecoverInstructions(Embed(B64Encode(Encode(text)), position))
    /\ fn_pc' = "parse_quiz_page"
    /\ UNCHANGED notFn

RoundTripInit ==
    /\ OrchIdle
    /\ EhAtRest
    /\ SubAtRest
    /\ AgentAtRest
    /\ MoreAtRest

RoundTripNext == ParseEmbeddedCalled

RoundTripSpec == RoundTripInit /\ [][RoundTripNext]_vars

PageParsed == fn_pc = "parse_quiz_page"

\* C29: whatever the instruction text, encoding it to base64 and embedding
\* it at any of the four positions makes the parser recover the text.
C29_RoundTripAtEveryPosition ==
    PageParsed => fn_out = GivesText(fn_arg.instructions)

\* An attempt of the current quiz raises an Exception while retries remain.
AttemptRaisesWithBudget ==
    /\ pc \in {"solve", "submit"}
    /\ retry_count' = retry_count + 1
    /\ retry_count' <= max_retries_per_quiz
    /\ verdict_toggle' = verdict_toggle
    /\ ~deadline_fired'

\* C30: for each quiz URL solve_task is called at most
\* max_retries_per_quiz + 1 times and submit_answer at most
\* max_retries_per_quiz + 1 times, attempts that ended in an incorrect
\* verdict and attempts that raised counting together in retry_count; after
\* an attempt that raises with retries left nothing is called before the
\* sleep of one second has ended.
C30_AttemptsBoundedAndSpaced ==
    /\ [](/\ solve_calls <= max_retries_per_quiz + 1
          /\ submit_calls <= max_retries_per_quiz + 1
          /\ pc \in {"solve", "submit"} => Attempts = retry_count + 1)
    /\ [][/\ AttemptRaisesWithBudget =>
                pc' = "retry_sleep" /\ solve_calls' = solve_calls
                                    /\ submit_calls' = submit_calls
          /\ pc = "retry_sleep" /\ pc' \in {"solve", "submit"} =>
                Attempts' = Attempts + 1 /\ Attempts' = retry_count + 1]_vars

C30_Witness ==
    /\ pc = "submit"
    /\ max_retries_per_quiz = 2
    /\ solve_calls = 3
    /\ submit_calls = 2
    /\ last_error = "timeout"

\* C31: the visited-URL list never holds a URL twice: a URL is appended only
\* when it is not in the list, and with the append starts the one call of
\* fetch_and_render for it.
C31_VisitedHoldsNoDuplicate ==
    /\ [](\A i, j \in 1..Len(visited_urls) :
              visited_urls[i] = visited_urls[j] => i = j)
    /\ [](render_calls <= 1)
    /\ [][visited_urls' # visited_urls =>
              /\ ~InSeq(current_url', visited_urls)
              /\ visited_urls' = Append(visited_urls, current_url')
              /\ render_calls' = 1]_vars

C31_Witness ==
    /\ pc = "done"
    /\ Len(visited_urls) = NumUrls
    /\ quizzes_solved = NumUrls
    /\ submit_response.url = visited_urls[1]
    /\ submit_response.quiz = visited_urls[NumUrls]

\* ----------------------------------------------------------------------
\* Further claims about the solve loop

\* The context the tools of a solve work on.
LlmContext == Context(llm_files, llm_dataframes, llm_results)

\* The tool calls of the turn that have been answered so far.
Answered == Len(llm_appended) - 1

\* C32: within one solve the tool calls of a turn are carried out one at a
\* time in the order requested: each step executes the first call that is
\* still pending, on the context the call before it left, and appends one
\* tool message carrying that call's id; the turn's part of the transcript
\* is the assistant message followed by the tool messages of calls 1, 2, ...
\* in that order, and the next turn is issued only when no call of the turn
\* is pending.
C32_ToolCallsInRequestOrder ==
    /\ [](llm_pc = "tool" => llm_pending # <<>> /\ llm_call_index = Answered + 1)
    /\ [](llm_appended # <<>> =>
              /\ llm_appended[1] = AssistantMessage
              /\ \A i \in 2..Len(llm_appended) :
                     /\ llm_appended[i].role = "tool"
                     /\ llm_appended[i].tool_call_id = i - 1)
    /\ [][llm_pc = "tool" /\ llm_appended' # llm_appended =>
              /\ llm_pending' = Tail(llm_pending)
              /\ Len(llm_appended') = Len(llm_appended) + 1
              /\ \E env \in ToolEnvs :
                     LET tool_call == Head(llm_pending)
                         tool_result == ExecuteTool(tool_call.name,
                                             LoadedArguments[tool_call.arguments].val,
                                             LlmContext, env)
                     IN  /\ LlmContext' = tool_result.ctx
                         /\ llm_appended' = Append(llm_appended,
                                ToolMessage(llm_call_index, ~tool_result.success))]_vars
    /\ [][llm_pc = "tool" /\ llm_appended' = llm_appended =>
              llm_pending' = llm_pending /\ llm_turns' = llm_turns]_vars
    /\ [][llm_turns' # llm_turns /\ llm_turns > 0 =>
              /\ llm_pc = "tool"
              /\ Len(llm_pending) = 1
              /\ llm_pending' = <<>>
              /\ llm_turns' = llm_turns + 1]_vars

\* Both calls of a turn have been answered, the first with a result and the
\* second with an error, and the second turn is issued.
C32_Witness ==
    /\ llm_pc = "turn"
    /\ llm_turns = 2
    /\ llm_pending = <<>>
    /\ llm_appended = <<AssistantMessage, ToolMessage(1, FALSE), ToolMessage(2, TRUE)>>
    /\ llm_files # {}

\* ----------------------------------------------------------------------
\* Part 10: LLMAgent._call_llm_with_retry (src/src/llm_agent.py 153-207)

\* max_retries of _call_llm_with_retry: the loop calls it without one.
LlmMaxRetries == 3

\* What client.chat.completions.create raises: RateLimitError and
\* APITimeoutError are APIError subclasses, the others are not.
ServiceErrors == {"RateLimitError", "APIError", "APITimeoutError", "ValueError",
                  "CancelledError"}

\* What it returns: a message with tool calls, or one without.
ServiceResponses == {"tool_calls", "final"}

\* The except clause an error of create is handled by.
ExceptClause(error) ==
    CASE error = "RateLimitError" -> "RateLimitError"
      [] error \in {"APIError", "APITimeoutError"} -> "APIError"
      [] error = "CancelledError" -> "none"
      [] OTHER -> "Exception"

\* wait_time = 2 ** attempt
WaitTime(attempt_no) == 2 ^ attempt_no

\* What the except clauses do with an error of the attempt: sleep and go on,
\* or raise; this variant sleeps after the last attempt as well.
AfterErrorAlwaysSleeps(error, attempt_no, max_retries) ==
    IF ExceptClause(error) \in {"RateLimitError", "APIError"}
    THEN IF attempt_no < max_retries THEN "sleep" ELSE "raise"
    ELSE "raise"

\* What the except clauses do with an error of the attempt (lines 183-205).
AfterError(error, attempt_no, max_retries) ==
    IF ExceptClause(error) \in {"RateLimitError", "APIError"}
    THEN IF attempt_no < max_retries - 1 THEN "sleep" ELSE "raise"
    ELSE "raise"

ClInit ==
    /\ OrchIdle
    /\ EhAtRest
    /\ SubAtRest
    /\ AgentAtRest
    /\ MoreAtRest

\* _call_llm_with_retry(model, messages, tools): the first attempt calls
\* create (lines 174-176).
CallLlmWithRetryCalled ==
    /\ cl_pc = "idle"
    /\ cl_pc' = "create"
    /\ cl_attempt' = 0
    /\ cl_calls' = 1
    /\ UNCHANGED <<notCl, cl_errors, cl_slept, cl_out>>

\* create returns a response: it is returned (lines 176-182).
CreateReturns ==
    /\ cl_pc = "create"
    /\ \E response \in ServiceResponses : cl_out' = [raised |-> "None", response |-> response]
    /\ cl_pc' = "returned"
    /\ UNCHANGED <<notCl, cl_attempt, cl_calls, cl_errors, cl_slept>>

\* create raises (lines 184-205).
CreateRaises ==
    /\ cl_pc = "create"
    /\ \E error \in ServiceErrors :
          /\ cl_errors' = Append(cl_errors, error)
          /\ IF AfterError(error, cl_attempt, LlmMaxRetries) = "sleep"
             THEN /\ cl_pc' = "sleep"
                  /\ UNCHANGED cl_out
             ELSE /\ cl_pc' = "raised"
                  /\ cl_out' = [raised |-> error, response |-> "none"]
    /\ UNCHANGED <<notCl, cl_attempt, cl_calls, cl_slept>>

\* asyncio.sleep(wait_time) is over: the next attempt calls create; after
\* the last attempt the loop is over and None is returned (lines 174, 187, 196).
BackoffSleepDone ==
    /\ cl_pc = "sleep"
    /\ cl_slept' = Append(cl_slept, WaitTime(cl_attempt))
    /\ cl_attempt' = cl_attempt + 1
    /\ IF cl_attempt + 1 < LlmMaxRetries
       THEN /\ cl_pc' = "create"
            /\ cl_calls' = cl_calls + 1
            /\ UNCHANGED cl_out
       ELSE /\ cl_pc' = "returned"
            /\ cl_out' = [raised |-> "None", response |-> "none"]
            /\ UNCHANGED cl_calls
    /\ UNCHANGED <<notCl, cl_errors>>

ClNext ==
    \/ CallLlmWithRetryCalled
    \/ CreateReturns
    \/ CreateRaises
    \/ BackoffSleepDone

ClSpec == ClInit /\ [][ClNext]_vars

\* The error create has just raised.
LastError == cl_errors'[Len(cl_errors')]
CreateRaised == cl_errors' # cl_errors
RateLimitOrApiError(error) == error \in {"RateLimitError", "APIError", "APITimeoutError"}

\* C33: one call of _call_llm_with_retry calls the reasoning service at most
\* max_retries (3) times; a rate-limit or API error of an attempt before the
\* last is followed by a sleep of 2^attempt seconds and then by another call;
\* on the last attempt it is re-raised; any other error is re-raised at
\* once, without a sleep and without another call.
C33_AtMostThreeCallsWithBackoff ==
    /\ [](cl_calls <= LlmMaxRetries /\ cl_calls <= 3)
    /\ [](cl_calls = Len(cl_slept) + (IF cl_pc = "idle" THEN 0 ELSE 1))
    /\ [](\A i \in 1..Len(cl_slept) : cl_slept[i] = 2 ^ (i - 1))
    /\ [][CreateRaised /\ RateLimitOrApiError(LastError) /\ cl_calls < LlmMaxRetries =>
              cl_pc' = "sleep" /\ cl_out' = cl_out]_vars
    /\ [][cl_pc = "sleep" =>
              /\ cl_pc' = "create"
              /\ cl_calls' = cl_calls + 1
              /\ cl_slept' = Append(cl_slept, 2 ^ (cl_calls - 1))]_vars
    /\ [][CreateRaised /\ RateLimitOrApiError(LastError) /\ cl_calls = LlmMaxRetries =>
              /\ cl_pc' = "raised"
              /\ cl_out'.raised = LastError
              /\ cl_slept' = cl_slept]_vars
    /\ [][CreateRaised /\ ~RateLimitOrApiError(LastError) =>
              /\ cl_pc' = "raised"
              /\ cl_out'.raised = LastError
              /\ cl_slept' = cl_slept]_vars
    /\ [](cl_pc \in {"returned", "raised"} =>
              /\ cl_out.raised = "None" => cl_out.response \in ServiceResponses
              /\ cl_out.raised # "None" => cl_out.raised = cl_errors[Len(cl_errors)])
    /\ [][(cl_pc = "returned" \/ cl_pc = "raised") => cl_calls' = cl_calls]_vars

\* Two rate-limit errors were slept over for 1 and 2 seconds, and the third
\* call's API error was re-raised.
C33_Witness ==
    /\ cl_pc = "raised"
    /\ cl_calls = 3
    /\ cl_errors = <<"RateLimitError", "RateLimitError", "APIError">>
    /\ cl_slept = <<1, 2>>
    /\ cl_out.raised = "APIError"

\* ----------------------------------------------------------------------
\* Part 11: the execution context over the solves of one agent
\* (src/src/llm_agent.py 56-102, 645-1060; quiz_orchestrator.py 324-337)

MaxSolves == 2

Namespaces == {"files", "dataframes", "results", "images", "audio"}

KeysOf(ctx, ns) ==
    CASE ns = "files" -> ctx.files
      [] ns = "dataframes" -> ctx.dataframes
      [] ns = "results" -> DOMAIN ctx.results
      [] ns = "images" -> ctx.images
      [] OTHER -> ctx.audio

AllKeys(ctx) == UNION {{<<ns, k>> : k \in KeysOf(ctx, ns)} : ns \in Namespaces}

\* solve_task's new context that keeps the images of the one before.
ResetContextKeepsImages(ctx) ==
    [files |-> {}, dataframes |-> {}, results |-> <<>>, images |-> ctx.images, audio |-> {}]

\* solve_task's new context (lines 74-82), which replaces ctx.
ResetContext(ctx) ==
    [files |-> {}, dataframes |-> {}, results |-> <<>>, images |-> {}, audio |-> {}]

\* Arguments as json.loads gives them.
Id(text) == StrVal(text)
Args(pairs) == ObjVal(pairs)

IdF == Id(<<"f">>)
IdD == Id(<<"d">>)
IdR == Id(<<"r">>)
IdI == Id(<<"i">>)
IdC1 == Id(<<"c", "1">>)

\* The tool calls a turn can request here: every tool, on the keys f, d, r, i, c1.
ContextCalls ==
    {ToolCall("download_file", Args(<<<<<<"u", "r", "l">>, Id(<<"u">>)>>, <<TextFileId, IdF>>>>)),
     ToolCall("parse_file", Args(<<<<TextFileId, IdF>>,
                                   <<<<"f", "i", "l", "e", "_", "t", "y", "p", "e">>, Id(<<"c", "s", "v">>)>>,
                                   <<TextDfId, IdD>>>>)),
     ToolCall("filter_data", Args(<<<<TextDfId, IdD>>, <<TextConditions, ArrVal(<<>>)>>,
                                    <<TextResultId, IdR>>>>)),
     ToolCall("aggregate_data", Args(<<<<TextDfId, IdD>>, <<TextOperations, ObjVal(<<>>)>>,
                                       <<TextResultId, IdR>>>>)),
     ToolCall("analyze_data", Args(<<<<TextDfId, IdD>>, <<TextAnalysisType, Id(TextValueCounts)>>,
                                     <<TextResultId, IdR>>,
                                     <<TextOptions, ObjVal(<<<<TextColumn, Id(<<"c">>)>>>>)>>>>)),
     ToolCall("analyze_data", Args(<<<<TextDfId, IdD>>, <<TextAnalysisType, Id(TextStatistics)>>,
                                     <<TextResultId, IdR>>>>)),
     ToolCall("create_chart", Args(<<<<TextDfId, IdD>>,
                                     <<<<"c", "h", "a", "r", "t", "_", "t", "y", "p", "e">>, Id(<<"b", "a", "r">>)>>,
                                     <<<<"c", "o", "n", "f", "i", "g">>, ObjVal(<<>>)>>,
                                     <<TextResultId, IdC1>>>>)),
     ToolCall("get_value", Args(<<<<TextResultId, IdC1>>>>)),
     ToolCall("get_value", Args(<<<<TextResultId, IdR>>, <<TextPath, Id(<<"c">>)>>>>)),
     ToolCall("process_image", Args(<<<<TextFileId, IdF>>, <<TextImageId, IdI>>>>)),
     ToolCall("analyze_image", Args(<<<<TextImageId, IdI>>, <<TextPrompt, Id(<<"p">>)>>,
                                      <<TextResultId, IdC1>>>>)),
     ToolCall("transcribe_audio", Args(<<<<TextFileId, IdF>>, <<TextResultId, IdC1>>>>))}

\* What the services a tool uses do; "series": the analysis engine gives a Series.
ContextEnvs == ToolEnvs \cup {"series"}

\* The key a tool reads, with the namespaces it is looked up in.
InputKey(call) ==
    CASE call.name \in {"parse_file", "process_image", "transcribe_audio"} ->
             [key |-> Arg(call.args, TextFileId), in |-> {"files"}]
      [] call.name \in {"filter_data", "aggregate_data", "analyze_data", "create_chart"} ->
             [key |-> Arg(call.args, TextDfId), in |-> {"dataframes"}]
      [] call.name = "analyze_image" ->
             [key |-> Arg(call.args, TextImageId), in |-> {"images"}]
      [] call.name = "get_value" ->
             [key |-> Arg(call.args, TextResultId), in |-> {"results", "dataframes"}]
      [] OTHER -> [key |-> NoneVal, in |-> {}]

ReadsKey(call) == InputKey(call).in # {}

\* The key is in none of the namespaces the tool looks it up in.
KeyAbsent(call, ctx) == \A ns \in InputKey(call).in : InputKey(call).key \notin KeysOf(ctx, ns)

\* The keys a call can store under: the identifiers among its arguments.
OutputIds(call) ==
    {call.args.m[k][2] : k \in {j \in 1..Len(call.args.m) :
         call.args.m[j][1] \in {TextFileId, TextDfId, TextResultId, TextImageId}}}
        \ (IF ReadsKey(call) /\ call.name # "get_value" THEN {InputKey(call).key} ELSE {})

\* The keys the call has stored: the new ones, and those of its output
\* identifiers that a successful call leaves in the context.
StoredBy(call, before, after, success) ==
    (AllKeys(after) \ AllKeys(before))
        \cup (IF success /\ call.name # "get_value"
              THEN {e \in AllKeys(after) : e[2] \in OutputIds(call)} ELSE {})

TxInit ==
    /\ OrchIdle
    /\ EhAtRest
    /\ SubAtRest
    /\ AgentAtRest
    /\ MoreAtRest

\* solve_task(task) is called, by _solve_single_quiz for an attempt: the
\* context is replaced (llm_agent.py 74-82, quiz_orchestrator.py 337).
SolveTaskStarts ==
    /\ tx_pc \in {"idle", "over"}
    /\ tx_solves < MaxSolves
    /\ tx_solves' = tx_solves + 1
    /\ tx_ctx' = ResetContext(tx_ctx)
    /\ tx_stored' = {}
    /\ tx_stored_ok' = {}
    /\ tx_pc' = "solving"
    /\ UNCHANGED <<notTx, tx_call>>

\* _execute_tool(function_name, function_args) for a tool call of a turn.
ToolExecuted ==
    /\ tx_pc = "solving"
    /\ \E call \in ContextCalls, env \in ContextEnvs :
          LET tool_result == ExecuteTool(call.name, call.arguments, tx_ctx, env)
              done == [name |-> call.name, args |-> call.arguments,
                       success |-> tool_result.success]
          IN  /\ tx_ctx' = tool_result.ctx
              /\ tx_call' = done
              /\ tx_stored' = tx_stored \cup StoredBy(done, tx_ctx, tool_result.ctx, TRUE)
              /\ tx_stored_ok' = tx_stored_ok
                     \cup (IF tool_result.success
                           THEN StoredBy(done, tx_ctx, tool_result.ctx, TRUE) ELSE {})
    /\ UNCHANGED <<notTx, tx_pc, tx_solves>>

\* solve_task returns or raises: the context stays as it is (lines 84-102).
SolveTaskEnds ==
    /\ tx_pc = "solving"
    /\ tx_pc' = "over"
    /\ UNCHANGED <<notTx, tx_solves, tx_ctx, tx_call, tx_stored, tx_stored_ok>>

TxNext ==
    \/ SolveTaskStarts
    \/ ToolExecuted
    \/ SolveTaskEnds

TxSpec == TxInit /\ [][TxNext]_vars

\* C34: every call of solve_task starts on a context whose files,
\* dataframes, results, images and audio namespaces are empty, so that every
\* key a solve can read was stored by a tool call of that same solve.
C34_ContextEmptyAtSolveStart ==
    /\ [][tx_solves' # tx_solves =>
              /\ tx_pc' = "solving"
              /\ \A ns \in Namespaces : KeysOf(tx_ctx', ns) = {}]_vars
    /\ [](AllKeys(tx_ctx) \subseteq tx_stored)
    /\ [](tx_ctx.audio = {})

\* The second solve starts on an empty context, after a first solve whose
\* last tool call stored an image beside a file.
C34_Witness ==
    /\ tx_solves = 2
    /\ tx_pc = "solving"
    /\ AllKeys(tx_ctx) = {}
    /\ tx_call.name = "process_image"
    /\ tx_call.success

\* A tool call has just been carried out.
ToolRan == tx_pc = "solving" /\ tx_pc' = "solving" /\ tx_solves' = tx_solves

\* C40: a tool call that names an input key absent from its namespace
\* returns a result with success false and leaves every namespace
\* unchanged; a tool that reads a key succeeds only when an earlier
\* successful tool call of the same solve has stored that key.
C40_AbsentKeyFailsAndStoredKeySucceeds ==
    /\ [][ToolRan /\ ReadsKey(tx_call') /\ KeyAbsent(tx_call', tx_ctx) =>
              ~tx_call'.success /\ tx_ctx' = tx_ctx]_vars
    /\ [][ToolRan /\ ReadsKey(tx_call') /\ tx_call'.success =>
              \E ns \in InputKey(tx_call').in :
                  <<ns, InputKey(tx_call').key>> \in tx_stored_ok]_vars

\* The first clause of C40 alone: an absent input key gives a failure that
\* changes no namespace.
AbsentKeyFails ==
    [][ToolRan /\ ReadsKey(tx_call') /\ KeyAbsent(tx_call', tx_ctx) =>
          ~tx_call'.success /\ tx_ctx' = tx_ctx]_vars

\* A call that failed has stored a key all the same.
FailedCallStored ==
    /\ tx_pc = "solving"
    /\ ~tx_call.success
    /\ tx_stored # tx_stored_ok

\* ----------------------------------------------------------------------
\* Part 12: the demo page (src/src/task_parser.py 39-49,
\* src/src/quiz_orchestrator.py 299-337)

\* The URLs whose text contains "/demo".
DemoUrls == {1}

\* A rendered page: its markup contains "POST this JSON" or not, and holds
\* an encoded payload that decodes to a task, or none.
Pages == [signature : BOOLEAN, payload : {"task", "none"}]

ParsedTask(kind, demo, discovery) == [kind |-> kind, is_demo |-> demo, discovery |-> discovery]

\* The canned task of the demo page: string-shaped, marked is_demo; the
\* payload discovery has not run.
DemoTask == ParsedTask("string", TRUE, FALSE)

\* parse_quiz_page that looks for the payload before the demo check.
ParseQuizPagePayloadFirst(html, base_url) ==
    IF html.payload = "none"
    THEN ParsedTask("fail", FALSE, TRUE)
    ELSE IF base_url \in DemoUrls /\ html.signature
    THEN DemoTask
    ELSE ParsedTask("task", FALSE, TRUE)

\* parse_quiz_page(html, base_url) (lines 39-60): the demo check, then
\* _extract_base64_content and the rest, which raise without a payload.
ParseQuizPage(html, base_url) ==
    IF base_url \in DemoUrls /\ html.signature
    THEN DemoTask
    ELSE IF html.payload = "none"
    THEN ParsedTask("fail", FALSE, TRUE)
    ELSE ParsedTask("task", FALSE, TRUE)

\* fetch_and_render has returned the page html: it is parsed, and the first
\* attempt begins (quiz_orchestrator.py 299-348).
PageRenderedAndParsed ==
    /\ pc = "page" /\ Running
    /\ bm_context
    /\ \E html \in Pages :
         LET task_definition == ParseQuizPage(html, current_url)
         IN  /\ fn_pc' = "parse_quiz_page"
             /\ fn_arg' = [html |-> html, base_url |-> current_url]
             /\ fn_out' = task_definition
             /\ IF task_definition.kind = "fail"
                THEN /\ ExitScope(TaskExecutionError, FALSE, quizzes_solved)
                     /\ UNCHANGED <<locv, callv>>
                ELSE /\ retry_count' = 0
                     /\ last_error' = "none"
                     /\ is_demo' = task_definition.is_demo
                     /\ StartAttempt(0, task_definition.is_demo)
    /\ submit_response' = NoResponse
    /\ UNCHANGED <<ehv, subv, agentv, concv, clv, txv, cfg, verdict_toggle, envv, seqv,
                   attempt, bmv>>

\* An orchestrator with its defaults.
DemoInit ==
    /\ OrchIdle
    /\ EhAtRest
    /\ SubAtRest
    /\ AgentAtRest
    /\ MoreAtRest

DemoNext ==
    \/ Start
    \/ Tick
    \/ DeadlineFires
    \/ PlaywrightStarted
    \/ BrowserLaunched
    \/ ContextCreated
    \/ LaunchFails
    \/ PageRenderedAndParsed
    \/ PageFails
    \/ RenderSleepDone
    \/ SolveReturns
    \/ StepRaises
    \/ SubmitReturns
    \/ RetrySleepDone
    \/ HandleClosed
    \/ CloseRaises
    \/ CleanupReturns

DemoSpec == DemoInit /\ [][DemoNext]_vars

\* The page of the current quiz has been parsed, and it is this one.
ParsedCurrent == fn_pc = "parse_quiz_page" /\ fn_arg.base_url = current_url

\* An attempt at the current quiz begins.
AttemptBegins == solve_calls' + submit_calls' = solve_calls + submit_calls + 1

\* C35: a page whose URL contains /demo and whose markup contains the
\* signature is parsed into the canned string-shaped task, without payload
\* discovery and whatever payload it holds; every attempt at such a quiz
\* goes straight to the submission, and solve_task is never called for it.
C35_DemoPageSkipsDiscoveryAndSolve ==
    /\ [](ParsedCurrent /\ fn_arg.base_url \in DemoUrls /\ fn_arg.html.signature =>
              /\ fn_out = DemoTask
              /\ fn_out.kind = "string" /\ ~fn_out.discovery
              /\ pc \in {"solve", "submit", "retry_sleep"} => is_demo)
    /\ [](is_demo => /\ ParsedCurrent
                      /\ fn_arg.base_url \in DemoUrls /\ fn_arg.html.signature
                      /\ solve_calls = 0
                      /\ pc # "solve")
    /\ [][is_demo' /\ AttemptBegins =>
              /\ pc' = "submit"
              /\ submit_calls' = submit_calls + 1
              /\ solve_calls' = 0]_vars

\* The demo page held no payload; its second submission is under way after
\* an incorrect verdict, and solve_task has not been called.
C35_Witness ==
    /\ is_demo
    /\ pc = "submit"
    /\ fn_arg.html.payload = "none"
    /\ submit_calls = 2
    /\ solve_calls = 0
    /\ retry_count = 1

\* ----------------------------------------------------------------------
\* Further claims about the per-quiz retry loop

\* The positions of the retry loop of _solve_single_quiz.
InRetryLoop == pc \in {"solve", "submit", "retry_sleep"}

\* C36: the page of a visited URL is rendered and parsed once, before the
\* first attempt: a step of the retry loop that stays at the same quiz
\* never renders or parses again, it goes on with solve, submit or the
\* retry sleep on the task definition parsed before the first attempt.
C36_RetriesReuseParsedTask ==
    /\ [](InRetryLoop => render_calls = 1)
    /\ [][InRetryLoop /\ visited_urls' = visited_urls =>
              /\ render_calls' = render_calls
              /\ pc' \notin LaunchSteps \cup {"page", "render_sleep"}
              /\ pc' \in {"solve", "submit", "retry_sleep"} => is_demo' = is_demo]_vars
    /\ [][pc = "page" /\ pc' \in {"solve", "submit"} =>
              solve_calls + submit_calls = 0 /\ retry_count' = 0]_vars

\* The third attempt at a quiz is under way, after an error of the first
\* and an incorrect verdict of the second; the page was rendered once.
C36_Witness ==
    /\ pc = "solve"
    /\ retry_count = 2
    /\ solve_calls = 3
    /\ submit_calls = 1
    /\ last_error = "reason"
    /\ render_calls = 1

\* submit_answer has just returned a verdict.
VerdictJudged == pc = "submit" /\ verdict_toggle' # verdict_toggle

\* C37: remaining_time is computed when a quiz is started, as the timeout
\* minus the time elapsed then, and changes at no other step; every verdict
\* of the quiz is judged with that value, whatever the clock reads when the
\* verdict arrives.
C37_DecisionUsesTimeAtQuizStart ==
    /\ [][remaining_time' # remaining_time =>
              /\ visited_urls' = Append(visited_urls, current_url')
              /\ remaining_time' = timeout - now]_vars
    /\ [][VerdictJudged =>
              LET d == VerdictDecision(submit_response'.correct, submit_response'.url,
                                       retry_count, remaining_time, max_retries_per_quiz)
              IN  /\ d = "return" <=> quizzes_solved' = quizzes_solved + 1
                  /\ d = "retry" <=> /\ retry_count' = retry_count + 1
                                     /\ visited_urls' = visited_urls
                                     /\ pc' \in {"solve", "submit"}]_vars

\* A quiz is retried for the second time after an incorrect verdict that
\* offered a next URL: the quiz started with 50 seconds, of which 5 are left.
C37_Witness ==
    /\ pc = "solve"
    /\ retry_count = 2
    /\ ~submit_response.correct
    /\ submit_response.url # NoUrl
    /\ submit_response.quiz = current_url
    /\ remaining_time = 50
    /\ timeout - now = 5

\* The verdict that has just arrived makes _solve_single_quiz return.
MovesPast ==
    /\ VerdictJudged
    /\ VerdictDecision(submit_response'.correct, submit_response'.url, retry_count,
                       remaining_time, max_retries_per_quiz) = "return"

\* C38: quizzes_solved grows by one exactly when a verdict makes the
\* orchestrator move past a quiz, a correct one or an incorrect one that
\* carries a next URL; so quizzes_solved <= Len(visited_urls) <=
\* quizzes_solved + 1 in every state, and the result of a completed sequence
\* reports that count with success true.
C38_SolvedCountsQuizzesMovedPast ==
    /\ [](quizzes_solved <= Len(visited_urls) /\ Len(visited_urls) <= quizzes_solved + 1)
    /\ [][MovesPast => quizzes_solved' = quizzes_solved + 1]_vars
    /\ [][quizzes_solved' # quizzes_solved =>
              /\ MovesPast
              /\ quizzes_solved' = quizzes_solved + 1
              /\ submit_response'.correct \/ submit_response'.url # NoUrl]_vars
    /\ [](pc = "done" /\ result.final_status = "completed" =>
              result.success /\ result.quizzes_solved = quizzes_solved)

\* The sequence has ended completed with success true and one quiz solved:
\* the only submission of its only quiz was judged incorrect, and the verdict
\* named the quiz itself as the next URL.
C38_Witness ==
    /\ pc = "done"
    /\ result = QuizResult(TRUE, 1, "completed", "None")
    /\ visited_urls = <<1>>
    /\ submit_calls = 1
    /\ ~submit_response.correct
    /\ submit_response.quiz = 1
    /\ submit_response.url = 1

\* ----------------------------------------------------------------------
\* A further claim about with_retry

\* C39: an error that classify_error puts in the unknown category is not
\* retryable: is_retryable gives false for it, and with_retry re-raises it
\* as soon as func has raised it, without a sleep and without another call
\* of func, whatever max_retries is.
C39_UnknownIsReraisedAtOnce ==
    /\ [](~IsRetryable("unknown"))
    /\ [][FuncFails /\ ClassifyError(wr_last_error') = "unknown" =>
              /\ wr_pc' = "raised"
              /\ wr_raised' = wr_last_error'
              /\ wr_calls' = wr_calls
              /\ wr_sleeps' = wr_sleeps]_vars
    /\ [][wr_pc = "raised" => wr_calls' = wr_calls]_vars

\* func has raised an error of the unknown category on its first call, with
\* retries allowed, and with_retry has raised.
UnknownErrorRaised ==
    /\ wr_pc = "raised"
    /\ wr_calls = 1
    /\ wr_max_retries = RetryCap
    /\ wr_last_error.category = "unknown"

====
